---- MODULE Spec2Model ----
(***************************************************************************)
(* A model of the filter/inclusion engine of paleae (src/paleae.py) and of *)
(* the row-export variant's file walker (src/milestones/paleaeone.py).     *)
(*                                                                         *)
(* Strings of the program (relative paths, regular-expression sources,     *)
(* glob lines) are TLA+ strings; a character is a string of length one.    *)
(***************************************************************************)
EXTENDS Integers, Sequences, FiniteSets, TLC

(***************************************************************************)
(* Characters and strings                                                  *)
(***************************************************************************)

Ch(s, i) == IF i >= 1 /\ i <= Len(s) THEN SubSeq(s, i, i) ELSE ""

\* The characters the model uses, in code-point order (Python compares
\* strings code point by code point).
CodePoints == "\n !#$()*+-./0123456789:?ABCDEFGHIJKLMNOPQRSTUVWXYZ[\\]^_abcdefghijklmnopqrstuvwxyz|"

Ord(c) == CHOOSE k \in 1..Len(CodePoints) : Ch(CodePoints, k) = c

Digits == {"0", "1", "2", "3", "4", "5", "6", "7", "8", "9"}

IsAlnum(c) == c # "" /\ ((Ord(c) >= Ord("0") /\ Ord(c) <= Ord("9"))
                         \/ (Ord(c) >= Ord("A") /\ Ord(c) <= Ord("Z"))
                         \/ (Ord(c) >= Ord("a") /\ Ord(c) <= Ord("z")))

\* str.__lt__ : lexicographic order by code point, a proper prefix first.
RECURSIVE StrLessFrom(_, _, _)
StrLessFrom(a, b, i) ==
    IF i > Len(a) THEN i <= Len(b)
    ELSE IF i > Len(b) THEN FALSE
    ELSE IF Ch(a, i) = Ch(b, i) THEN StrLessFrom(a, b, i + 1)
    ELSE Ord(Ch(a, i)) < Ord(Ch(b, i))

StrLess(a, b) == StrLessFrom(a, b, 1)

\* str.startswith
StartsWith(s, p) == Len(p) <= Len(s) /\ SubSeq(s, 1, Len(p)) = p

EndsWith(s, p) == Len(p) <= Len(s) /\ SubSeq(s, Len(s) - Len(p) + 1, Len(s)) = p

Contains(s, sub) ==
    \E i \in 1..(Len(s) - Len(sub) + 1) : SubSeq(s, i, i + Len(sub) - 1) = sub

(***************************************************************************)
(* re.compile : the subset of Python's regular-expression syntax that the  *)
(* program's patterns use.  A compiled pattern is a syntax tree:           *)
(*   <<"empty">>  <<"lit", c>>  <<"any">>  <<"anyS">> (DOTALL)  <<"digit">> *)
(*   <<"set", negated, chars>>  <<"bol">>  <<"eol">>  <<"eos">> (\Z)       *)
(*   <<"cat", a, b>>  <<"alt", a, b>>  <<"opt", a>>  <<"star", a>>         *)
(* A pattern that does not compile yields ok = FALSE and re.error's text.  *)
(***************************************************************************)

ReFail(msg, i) == [ok |-> FALSE, node |-> <<"empty">>, pos |-> i, msg |-> msg]
ReOk(node, i) == [ok |-> TRUE, node |-> node, pos |-> i, msg |-> ""]

\* Index of the "]" that closes a character set whose body starts at k
\* (a "]" in first position is a literal), or 0.
ClassClose(s, k) ==
    LET js == {j \in (k + 1)..Len(s) : Ch(s, j) = "]"}
    IN  IF js = {} THEN 0 ELSE CHOOSE j \in js : \A j2 \in js : j <= j2

\* Quantifiers following an atom.
RECURSIVE ParsePostfix(_, _, _, _)
ParsePostfix(s, node, i, quantified) ==
    LET c == Ch(s, i)
    IN  IF c = "?" THEN
            IF quantified THEN ParsePostfix(s, node, i + 1, FALSE)   \* lazy
            ELSE ParsePostfix(s, <<"opt", node>>, i + 1, TRUE)
        ELSE IF c = "*" THEN
            IF quantified THEN ReFail("multiple repeat", i)
            ELSE ParsePostfix(s, <<"star", node>>, i + 1, TRUE)
        ELSE IF c = "+" THEN
            IF quantified THEN ReFail("multiple repeat", i)
            ELSE ParsePostfix(s, <<"cat", node, <<"star", node>>>>, i + 1, TRUE)
        ELSE ReOk(node, i)

RECURSIVE ParseAlt(_, _, _)
RECURSIVE ParseCat(_, _, _)

\* The end of a group: r is the parse of its body, i the position of its "(".
ParseGroupEnd(s, i, r) ==
    IF ~r.ok THEN r
    ELSE IF Ch(s, r.pos) # ")" THEN ReFail("missing ), unterminated subpattern", i)
    ELSE ReOk(r.node, r.pos + 1)

\* A group "(...)", "(?:...)" or "(?s:...)" whose "(" is at position i.
ParseGroup(s, i, dotall) ==
    LET flagS == SubSeq(s, i + 1, IF i + 3 <= Len(s) THEN i + 3 ELSE Len(s)) = "?s:"
        plain == SubSeq(s, i + 1, IF i + 2 <= Len(s) THEN i + 2 ELSE Len(s)) = "?:"
        start == IF flagS THEN i + 4 ELSE IF plain THEN i + 3 ELSE i + 1
    IN  ParseGroupEnd(s, i, ParseAlt(s, start, dotall \/ flagS))

ParseAtom(s, i, dotall) ==
    LET c == Ch(s, i)
    IN  CASE c = "(" -> ParseGroup(s, i, dotall)
          [] c = "[" ->
                LET neg == Ch(s, i + 1) = "^"
                    k == IF neg THEN i + 2 ELSE i + 1
                    j == ClassClose(s, k)
                IN  IF j = 0 THEN ReFail("unterminated character set", i)
                    ELSE ReOk(<<"set", neg, SubSeq(s, k, j - 1)>>, j + 1)
          [] c = "\\" ->
                LET e == Ch(s, i + 1)
                IN  IF e = "" THEN ReFail("bad escape (end of pattern)", i)
                    ELSE IF e = "Z" THEN ReOk(<<"eos">>, i + 2)
                    ELSE IF e = "d" THEN ReOk(<<"digit">>, i + 2)
                    ELSE IF IsAlnum(e) THEN ReFail("bad escape", i)
                    ELSE ReOk(<<"lit", e>>, i + 2)
          [] c = "." -> ReOk(IF dotall THEN <<"anyS">> ELSE <<"any">>, i + 1)
          [] c = "^" -> ReOk(<<"bol">>, i + 1)
          [] c = "$" -> ReOk(<<"eol">>, i + 1)
          [] c \in {"*", "?", "+"} -> ReFail("nothing to repeat", i)
          [] OTHER -> ReOk(<<"lit", c>>, i + 1)

\* An atom a with the quantifiers that follow it.
ParseItem(s, a) == IF a.ok THEN ParsePostfix(s, a.node, a.pos, FALSE) ELSE a

\* The sequence q, rest of an item and the items after it.
CatJoin(q, rest) ==
    IF ~rest.ok THEN rest ELSE ReOk(<<"cat", q.node, rest.node>>, rest.pos)

CatRest(s, q, dotall) ==
    IF ~q.ok THEN q ELSE CatJoin(q, ParseCat(s, q.pos, dotall))

\* A sequence of items, up to "|", ")" or the end of the pattern.
ParseCat(s, i, dotall) ==
    IF i > Len(s) \/ Ch(s, i) \in {"|", ")"} THEN ReOk(<<"empty">>, i)
    ELSE CatRest(s, ParseItem(s, ParseAtom(s, i, dotall)), dotall)

\* The alternation l | r of a sequence and the branches after it.
AltJoin(l, r) ==
    IF ~r.ok THEN r ELSE ReOk(<<"alt", l.node, r.node>>, r.pos)

AltRest(s, l, dotall) ==
    IF ~l.ok THEN l
    ELSE IF Ch(s, l.pos) = "|" THEN AltJoin(l, ParseAlt(s, l.pos + 1, dotall))
    ELSE l

ParseAlt(s, i, dotall) == AltRest(s, ParseCat(s, i, dotall), dotall)

\* A pattern is parsed to its end; a ")" left over is an error.
ParseEnd(pattern, r) ==
    IF ~r.ok THEN r
    ELSE IF r.pos # Len(pattern) + 1 THEN ReFail("unbalanced parenthesis", r.pos)
    ELSE r

\* re.compile(pattern): ok, or re.error with its message.
re_compile(pattern) == ParseEnd(pattern, ParseAlt(pattern, 1, FALSE))

(***************************************************************************)
(* Pattern.search : Ends(n, s, i) is the set of positions at which a match *)
(* of n that starts at position i of s can end.                            *)
(***************************************************************************)

RECURSIVE Ends(_, _, _)
RECURSIVE StarClose(_, _, _, _)

Ends(n, s, i) ==
    LET t == n[1]
        c == Ch(s, i)
    IN  CASE t = "empty" -> {i}
          [] t = "lit"   -> IF c = n[2] THEN {i + 1} ELSE {}
          [] t = "any"   -> IF c # "" /\ c # "\n" THEN {i + 1} ELSE {}
          [] t = "anyS"  -> IF c # "" THEN {i + 1} ELSE {}
          [] t = "digit" -> IF c \in Digits THEN {i + 1} ELSE {}
          [] t = "set"   ->
                LET member == \E k \in 1..Len(n[3]) : Ch(n[3], k) = c
                IN  IF c # "" /\ (member # n[2]) THEN {i + 1} ELSE {}
          [] t = "bol"   -> IF i = 1 THEN {i} ELSE {}
          [] t = "eol"   -> IF i = Len(s) + 1 \/ (i = Len(s) /\ c = "\n") THEN {i} ELSE {}
          [] t = "eos"   -> IF i = Len(s) + 1 THEN {i} ELSE {}
          [] t = "cat"   -> UNION {Ends(n[3], s, j) : j \in Ends(n[2], s, i)}
          [] t = "alt"   -> Ends(n[2], s, i) \cup Ends(n[3], s, i)
          [] t = "opt"   -> {i} \cup Ends(n[2], s, i)
          [] t = "star"  -> StarClose(n[2], s, {i}, {i})

StarClose(n, s, frontier, seen) ==
    IF frontier = {} THEN seen
    ELSE LET new == UNION {Ends(n, s, j) : j \in frontier} \ seen
         IN  StarClose(n, s, new, seen \cup new)

\* re.Pattern.search(text): a match starting anywhere in the text.
re_search(pattern, text) ==
    LET n == re_compile(pattern).node
    IN  \E i \in 1..(Len(text) + 1) : Ends(n, text, i) # {}


(***************************************************************************)
(* String helpers of the Python standard library                           *)
(***************************************************************************)

Whitespace == {" ", "\n"}

\* str.strip()
RECURSIVE lstrip(_)
lstrip(s) == IF s # "" /\ Ch(s, 1) \in Whitespace THEN lstrip(SubSeq(s, 2, Len(s))) ELSE s

RECURSIVE rstrip(_)
rstrip(s) == IF s # "" /\ Ch(s, Len(s)) \in Whitespace THEN rstrip(SubSeq(s, 1, Len(s) - 1)) ELSE s

strip(s) == rstrip(lstrip(s))

\* str.splitlines(): the lines of s, without their line ends.
RECURSIVE splitlines(_)
splitlines(s) ==
    IF s = "" THEN <<>>
    ELSE LET nls == {k \in 1..Len(s) : Ch(s, k) = "\n"}
         IN  IF nls = {} THEN <<s>>
             ELSE LET k == CHOOSE k1 \in nls : \A k2 \in nls : k1 <= k2
                  IN  <<SubSeq(s, 1, k - 1)>> \o splitlines(SubSeq(s, k + 1, Len(s)))

\* PurePath.name and PurePath.suffix of a relative posix path.
path_name(p) ==
    LET sl == {k \in 1..Len(p) : Ch(p, k) = "/"}
    IN  IF sl = {} THEN p
        ELSE SubSeq(p, (CHOOSE k1 \in sl : \A k2 \in sl : k1 >= k2) + 1, Len(p))

path_suffix(p) ==
    LET name == path_name(p)
        dots == {k \in 1..Len(name) : Ch(name, k) = "."}
        i == IF dots = {} THEN 0 ELSE CHOOSE k1 \in dots : \A k2 \in dots : k1 >= k2
    IN  IF 1 < i /\ i < Len(name) THEN SubSeq(name, i, Len(name)) ELSE ""

\* The directories above a relative path, nearest last: "a/b/c" -> {"a", "a/b"}.
Parents(p) == {SubSeq(p, 1, k - 1) : k \in {k1 \in 1..Len(p) : Ch(p, k1) = "/"}}

\* sorted(list of str): insertion into an ascending list, one element at a time.
RECURSIVE InsertSorted(_, _)
InsertSorted(x, l) ==
    IF l = <<>> THEN <<x>>
    ELSE IF StrLess(Head(l), x) THEN <<Head(l)>> \o InsertSorted(x, Tail(l))
    ELSE <<x>> \o l

RECURSIVE sorted(_)
sorted(l) == IF l = <<>> THEN <<>> ELSE InsertSorted(Head(l), sorted(Tail(l)))

Range(l) == {l[k] : k \in 1..Len(l)}

(***************************************************************************)
(* Configuration of paleae.py                                              *)
(***************************************************************************)

MAX_SIZE == 10 * 1024 * 1024

PALEAEIGNORE == ".paleaeignore"

TEXT_EXTS == {".py", ".md", ".rst", ".txt", ".json", ".yaml", ".yml", ".toml",
              ".ini", ".cfg", ".xml", ".csv", ".tsv", ".html", ".css", ".js",
              ".ts", ".tsx", ".c", ".h", ".cpp", ".hpp", ".java", ".kt", ".go",
              ".rs", ".rb", ".php", ".sh", ".ps1"}

\* re.escape(PALEAEIGNORE)
EscapedPaleaeIgnore == "\\.paleaeignore"

DEFAULT_SKIP == <<
    "(^|/)\\.(git|hg|svn)($|/)",
    "(^|/)__pycache__($|/)",
    "(^|/)\\.(pytest|mypy|ruff)_cache($|/)",
    "(^|/)(\\.?venv|env)($|/)",
    "(^|/)node_modules($|/)",
    "(^|/)(build|dist)($|/)",
    "(^|/)coverage($|/)",
    "(^|/)htmlcov($|/)",
    "(^|/)\\.coverage($|/)?",
    "(^|/)\\.env($|/)",
    "(^|/)" \o EscapedPaleaeIgnore \o "($|/)?" >>

PROFILES == [
    minimal |-> [include |-> <<".*">>, exclude |-> DEFAULT_SKIP],
    ai_optimized |-> [
        include |-> << "^(src|tests)(/.*)?$",
                       "^pyproject\\.toml$",
                       "^README(\\.md|\\.rst)?$",
                       "^(ROADMAP|CHANGELOG)\\.md$" >>,
        exclude |-> DEFAULT_SKIP \o <<"(^|/)docs/">> ] ]


(***************************************************************************)
(* Pure functions of paleae.py                                             *)
(***************************************************************************)

\* re.escape(c) for one character.
re_escape(c) ==
    IF c \in {"(", ")", "[", "]", "?", "*", "+", "-", "|", "^", "$", "\\", ".", "#", " ", "\n"}
    THEN "\\" \o c ELSE c

\* fnmatch.translate(pat): "*" -> ".*" (runs of "*" count once), "?" -> ".",
\* "[seq]" -> a character set ("[!seq]" negated), an unclosed "[" and every
\* other character literally; the whole wrapped as (?s:...)\Z.
RECURSIVE GlobBody(_, _)
GlobBody(pat, i) ==
    LET c == Ch(pat, i)
        n == Len(pat)
    IN  IF i > n THEN ""
        ELSE IF c = "*" THEN
            (IF Ch(pat, i - 1) = "*" THEN "" ELSE ".*") \o GlobBody(pat, i + 1)
        ELSE IF c = "?" THEN "." \o GlobBody(pat, i + 1)
        ELSE IF c = "[" THEN
            LET j1 == IF Ch(pat, i + 1) = "!" THEN i + 2 ELSE i + 1
                j2 == IF Ch(pat, j1) = "]" THEN j1 + 1 ELSE j1
                close == {j \in j2..n : Ch(pat, j) = "]"}
            IN  IF close = {} THEN "\\[" \o GlobBody(pat, i + 1)
                ELSE LET j == CHOOSE j3 \in close : \A j4 \in close : j3 <= j4
                         stuff == SubSeq(pat, i + 1, j - 1)
                         set == IF stuff = "!" THEN "."
                                ELSE IF Ch(stuff, 1) = "!"
                                     THEN "[^" \o SubSeq(stuff, 2, Len(stuff)) \o "]"
                                ELSE IF Ch(stuff, 1) \in {"^", "["}
                                     THEN "[\\" \o stuff \o "]"
                                ELSE "[" \o stuff \o "]"
                     IN  set \o GlobBody(pat, j + 1)
        ELSE re_escape(c) \o GlobBody(pat, i + 1)

fnmatch_translate(pat) == "(?s:" \o GlobBody(pat, 1) \o ")\\Z"

\* _translate_globs_to_regex(globs)
RECURSIVE translate_globs_to_regex(_)
translate_globs_to_regex(globs) ==
    IF globs = <<>> THEN <<>>
    ELSE LET line == strip(Head(globs))
             rest == translate_globs_to_regex(Tail(globs))
         IN  IF line = "" \/ StartsWith(line, "#") THEN rest
             ELSE <<fnmatch_translate(line)>> \o rest

\* Faulty variant: the remainder of a "!" line is not trimmed.
RECURSIVE PartitionLines_KeepsInnerSpace(_, _, _)
PartitionLines_KeepsInnerSpace(lines, pos, neg) ==
    IF lines = <<>> THEN [pos |-> pos, neg |-> neg]
    ELSE LET line == strip(Head(lines))
         IN  IF line = "" \/ StartsWith(line, "#")
                 THEN PartitionLines_KeepsInnerSpace(Tail(lines), pos, neg)
             ELSE IF StartsWith(line, "!")
                 THEN PartitionLines_KeepsInnerSpace(Tail(lines), pos,
                                     Append(neg, SubSeq(line, 2, Len(line))))
             ELSE PartitionLines_KeepsInnerSpace(Tail(lines), Append(pos, line), neg)

\* The loop of read_paleaeignore over the lines of the file.
RECURSIVE PartitionLines(_, _, _)
PartitionLines(lines, pos, neg) ==
    IF lines = <<>> THEN [pos |-> pos, neg |-> neg]
    ELSE LET line == strip(Head(lines))
         IN  IF line = "" \/ StartsWith(line, "#")
                 THEN PartitionLines(Tail(lines), pos, neg)
             ELSE IF StartsWith(line, "!")
                 THEN PartitionLines(Tail(lines), pos,
                                     Append(neg, strip(SubSeq(line, 2, Len(line)))))
             ELSE PartitionLines(Tail(lines), Append(pos, line), neg)

\* The ignore file of a root: absent, or a regular file with this text.
\* access tells what the operating system lets the program do with it:
\* "ok"; "read_denied" (the file can be stat'ed, reading it raises
\* PermissionError); "stat_denied" (the root directory is not searchable:
\* stat() of anything below it fails with EACCES).
NoIgnoreFile == [present |-> FALSE, text |-> "", access |-> "ok"]
IgnoreFile(text) == [present |-> TRUE, text |-> text, access |-> "ok"]
UnreadableIgnoreFile(text) == [present |-> TRUE, text |-> text, access |-> "read_denied"]
UnsearchableRoot(present, text) == [present |-> present, text |-> text, access |-> "stat_denied"]

\* What a call of read_paleaeignore ends with: the pair it returns, whether
\* it printed its warning, or the exception that leaves it.
ReadReturned(pos, neg, warned) ==
    [raised |-> FALSE, warned |-> warned, pos |-> pos, neg |-> neg]
ReadRaised == [raised |-> TRUE, warned |-> FALSE, pos |-> <<>>, neg |-> <<>>]

ReadLines(p) == ReadReturned(p.pos, p.neg, FALSE)

\* Faulty variant: "!" lines are dropped.
read_paleaeignore_DropsNegations(ign) ==
    IF ign.access = "stat_denied" THEN ReadRaised
    ELSE IF ~ign.present THEN ReadReturned(<<>>, <<>>, FALSE)
    ELSE IF ign.access = "read_denied" THEN ReadReturned(<<>>, <<>>, TRUE)
    ELSE ReadReturned(PartitionLines(splitlines(ign.text), <<>>, <<>>).pos, <<>>, FALSE)

\* read_paleaeignore(root) -> (positive_globs, negative_globs).  Path.is_file
\* is called outside the try block: it returns False for a missing file and
\* raises PermissionError when stat() fails with EACCES.  read_text raising
\* OSError is caught: the warning is printed and both lists are still empty,
\* because the loop over the lines runs after read_text has returned.
read_paleaeignore(ign) ==
    IF ign.access = "stat_denied" THEN ReadRaised
    ELSE IF ~ign.present THEN ReadReturned(<<>>, <<>>, FALSE)
    ELSE IF ign.access = "read_denied" THEN ReadReturned(<<>>, <<>>, TRUE)
    ELSE ReadLines(PartitionLines(splitlines(ign.text), <<>>, <<>>))

RECURSIVE CompileLoop(_, _)

\* One turn of compile_patterns' loop: r is re.compile(patterns[0]); re.error
\* becomes PaleaeError, which names the offending string.
CompileOne(patterns, compiled, r) ==
    IF r.ok THEN CompileLoop(Tail(patterns), Append(compiled, Head(patterns)))
    ELSE [ok |-> FALSE, compiled |-> <<>>, pattern |-> Head(patterns),
          msg |-> "Invalid regex '" \o Head(patterns) \o "': " \o r.msg]

\* Faulty variant: a string that does not compile is skipped.
RECURSIVE CompileLoop_SkipsInvalid(_, _)
CompileLoop_SkipsInvalid(patterns, compiled) ==
    IF patterns = <<>>
        THEN [ok |-> TRUE, compiled |-> compiled, pattern |-> "", msg |-> ""]
    ELSE IF re_compile(Head(patterns)).ok
        THEN CompileLoop_SkipsInvalid(Tail(patterns), Append(compiled, Head(patterns)))
    ELSE CompileLoop_SkipsInvalid(Tail(patterns), compiled)

\* compile_patterns(patterns): the compiled list (a compiled pattern is
\* identified by its source, re.Pattern.pattern), or the PaleaeError raised
\* at the first string that re.compile rejects.
CompileLoop(patterns, compiled) ==
    IF patterns = <<>>
        THEN [ok |-> TRUE, compiled |-> compiled, pattern |-> "", msg |-> ""]
    ELSE CompileOne(patterns, compiled, re_compile(Head(patterns)))

compile_patterns(patterns) ==
    IF patterns = <<>>
        THEN [ok |-> TRUE, compiled |-> <<>>, pattern |-> "", msg |-> ""]
    ELSE CompileLoop(patterns, <<>>)


(***************************************************************************)
(* The file system under the scan root, and the inputs of a run            *)
(***************************************************************************)

\* The largest number of regular files (besides the ignore file) in a tree.
MaxFiles == 2

\* The first bytes of a regular file, as far as is_text_file looks at them:
\* its size, the offset of its first NUL byte and of its first byte that is
\* not valid UTF-8 (0: none), the offset and length of a multi-byte UTF-8
\* character (0: none), the offset of the four characters \x00 (0: none),
\* and whether stat() and open() fail with an OSError.
Bytes(size, nul, bad, mbStart, mbLen) ==
    [size |-> size, nul |-> nul, bad |-> bad, mbStart |-> mbStart,
     mbLen |-> mbLen, esc |-> 0, stat_error |-> FALSE, os_error |-> FALSE,
     blank |-> FALSE]

PlainText(size) == Bytes(size, 0, 0, 0, 0)

\* A file of white space only.
BlankText(size) == [PlainText(size) EXCEPT !.blank = TRUE]

\* The regular files a tree is drawn from, with their content.
Content ==
    "src/main.py"               :> PlainText(10) @@
    "src/utils.py"              :> PlainText(18) @@
    ".git/important.log"        :> PlainText(9) @@
    "app.log"                   :> BlankText(9) @@
    "important.log"             :> PlainText(13) @@
    "data.bin"                  :> Bytes(3, 1, 0, 0, 0) @@
    "locked.txt"                :> PlainText(5) @@
    "large_file.txt"            :> PlainText(MAX_SIZE + 1) @@
    ".git/config"               :> PlainText(20) @@
    "node_modules/pkg/index.js" :> PlainText(12)

UniverseFiles == {"src/main.py", "src/utils.py", ".git/important.log",
                  "app.log", "important.log", "data.bin", "locked.txt",
                  "large_file.txt"}

\* Entries whose stat() fails with EACCES: Path.is_file() raises PermissionError.
Denied == {"locked.txt"}

Trees == {t \in SUBSET UniverseFiles : Cardinality(t) <= MaxFiles}

\* The trees main is run on.
MainTrees == {t \in Trees : t \subseteq {"src/main.py", "src/utils.py", "app.log", "locked.txt"}}

IgnorePool == { NoIgnoreFile,
                IgnoreFile("# logs\n*.log\n\n!important.log\n"),
                IgnoreFile("*.log\n"),
                IgnoreFile("src/utils.py\n!data.bin\n! app.log") }

\* Ignore files for direct calls of read_paleaeignore: every text of at most
\* MaxIgnoreLines lines drawn from ReadLinePool ("\n".join, as the tests write
\* them), readable or not, and a root that is not searchable.
MaxIgnoreLines == 2
ReadLinePool == {"", "  ", "# c", "*.log", " a.py ", "!x", "  ! y  ", "!", "!#k"}

RECURSIVE JoinLines(_)
JoinLines(ls) ==
    IF ls = <<>> THEN ""
    ELSE IF Len(ls) = 1 THEN ls[1]
    ELSE ls[1] \o "\n" \o JoinLines(Tail(ls))

ReadTexts == {JoinLines(ls) : ls \in UNION {[1..n -> ReadLinePool] : n \in 0..MaxIgnoreLines}}

ReadPool ==
    {NoIgnoreFile, UnsearchableRoot(FALSE, ""), UnsearchableRoot(TRUE, "*.log\n"),
     UnreadableIgnoreFile("*.log\n!x\n")}
    \cup {IgnoreFile(t) : t \in ReadTexts}

IncPool == { <<>>, <<".*">>, <<"^src/">> }

ExcPool == { <<>>, DEFAULT_SKIP, <<"\\.py$", "utils">>, <<"src/$">> }

\* The scenario of the specification's section 8.
ScenarioTree == {"src/main.py", ".git/config", "node_modules/pkg/index.js",
                 "app.log", "important.log"}
ScenarioIgnore == IgnoreFile("*.log\n!important.log")

\* The compiled ignore rules of an ignore file, as main and the tests build
\* them: compile_patterns(_translate_globs_to_regex(globs)).
IgnorePos(ign) == compile_patterns(translate_globs_to_regex(read_paleaeignore(ign).pos))
IgnoreNeg(ign) == compile_patterns(translate_globs_to_regex(read_paleaeignore(ign).neg))

\* Inputs of matches_any when it is called on its own.
MaxPatterns == 2
MatchPatterns == {"^a", "b$", "c\\d"}
MatchTexts == {"", "a", "ab", "ba", "xc1", "cab", "b\n"}
MatchLists == UNION {[1..n -> MatchPatterns] : n \in 0..MaxPatterns}

\* Ignore-file lines and the relative paths they are tried on, when
\* matches_any is given the translation of one line.
GlobLines == {"important.log", "*.log", "src/*", "?pp.log"}
GlobPaths == {"important.log", "notimportant.log", "logs/important.log",
              "app.log", "src/main.py", "lib/src/a"}
GlobPatterns(line) == compile_patterns(translate_globs_to_regex(<<line>>)).compiled

\* rglob("*") yields every directory and file below the root, each once.
Entries(tree, ign) ==
    tree \cup UNION {Parents(f) : f \in tree}
         \cup (IF ign.present THEN {PALEAEIGNORE} ELSE {})

\* The texts and patterns that occur in some run, for SearchTable.
AllTexts ==
    LET files == UniverseFiles \cup ScenarioTree \cup {PALEAEIGNORE}
        dirs  == UNION {Parents(f) : f \in files}
    IN  files \cup dirs \cup {d \o "/" : d \in dirs} \cup {"/"} \cup MatchTexts
        \cup GlobPaths

AllPatterns ==
    UNION {Range(l) : l \in IncPool \cup ExcPool}
    \cup UNION {Range(IgnorePos(i).compiled) \cup Range(IgnoreNeg(i).compiled)
                : i \in IgnorePool \cup {ScenarioIgnore}}
    \cup Range(PROFILES.minimal.include) \cup Range(PROFILES.ai_optimized.include)
    \cup Range(PROFILES.ai_optimized.exclude)
    \cup MatchPatterns
    \cup UNION {Range(GlobPatterns(g)) : g \in GlobLines}

\* re.Pattern.search for every pattern and text that occurs in some run: the
\* pairs <<pattern, text>> for which the search succeeds.  A run holds this
\* relation in the variable re_cache (each pattern is compiled and searched
\* once), and Pattern_search looks the answer up there.
VARIABLE re_cache

SearchTable ==
    UNION { LET n == re_compile(p).node
            IN  {<<p, t>> : t \in {t1 \in AllTexts :
                                     \E i \in 1..(Len(t1) + 1) : Ends(n, t1, i) # {}}}
            : p \in AllPatterns }

Pattern_search(p, text) == <<p, text>> \in re_cache

\* Faulty variant: only the first pattern is tried.
matches_any_FirstOnly(text, patterns) ==
    patterns # <<>> /\ Pattern_search(Head(patterns), text)

\* matches_any(text, patterns): any(p.search(text) for p in patterns),
\* evaluated pattern by pattern and stopping at the first match.
RECURSIVE matches_any(_, _)
matches_any(text, patterns) ==
    IF patterns = <<>> THEN FALSE
    ELSE IF Pattern_search(Head(patterns), text) THEN TRUE
    ELSE matches_any(text, Tail(patterns))

\* Path.is_file(): "yes", "no", or "raise" (PermissionError from stat()).
is_file(tree, ign, path) ==
    IF path \in Denied /\ path \in tree THEN "raise"
    ELSE IF ign.access = "stat_denied" THEN "raise"
    ELSE IF path \in tree \/ (ign.present /\ path = PALEAEIGNORE) THEN "yes"
    ELSE "no"

FileBytes(ign, path) ==
    IF path = PALEAEIGNORE
    THEN [PlainText(Len(ign.text)) EXCEPT !.os_error = (ign.access = "read_denied")]
    ELSE Content[path]

Min(a, b) == IF a <= b THEN a ELSE b

\* bytes.decode("utf-8") of the first n bytes succeeds.
DecodesUtf8(b, n) ==
    /\ ~(b.bad >= 1 /\ b.bad <= n)
    /\ ~(b.mbStart >= 1 /\ b.mbStart <= n /\ b.mbStart + b.mbLen - 1 > n)

\* str.lower() (ASCII letters).
UpperCase == "ABCDEFGHIJKLMNOPQRSTUVWXYZ"
LowerCase == "abcdefghijklmnopqrstuvwxyz"
lower_char(c) ==
    LET ks == {k \in 1..Len(UpperCase) : Ch(UpperCase, k) = c}
    IN  IF ks = {} THEN c ELSE Ch(LowerCase, CHOOSE k \in ks : TRUE)

RECURSIVE lower(_)
lower(s) == IF s = "" THEN "" ELSE lower_char(Ch(s, 1)) \o lower(SubSeq(s, 2, Len(s)))

\* Faulty variant: an allow-listed extension decides before size and content.
InspectFile_ExtensionFirst(path, b) ==
    IF b.stat_error THEN FALSE
    ELSE IF lower(path_suffix(path)) \in TEXT_EXTS THEN TRUE
    ELSE IF b.size = 0 THEN path_suffix(path) = ""
    ELSE IF b.size > MAX_SIZE THEN FALSE
    ELSE IF b.os_error THEN FALSE
    ELSE IF b.nul >= 1 /\ b.nul <= Min(1024, b.size) THEN FALSE
    ELSE DecodesUtf8(b, Min(1024, b.size))

\* Faulty variant: no size limit.
InspectFile_NoSizeLimit(path, b) ==
    IF b.stat_error THEN FALSE
    ELSE IF b.size = 0
        THEN lower(path_suffix(path)) \in TEXT_EXTS \/ path_suffix(path) = ""
    ELSE IF b.os_error THEN FALSE
    ELSE IF b.nul >= 1 /\ b.nul <= Min(1024, b.size) THEN FALSE
    ELSE DecodesUtf8(b, Min(1024, b.size))

\* Faulty variant: an empty file with another extension goes on to the
\* content inspection.
InspectFile_EmptyInspected(path, b) ==
    IF b.stat_error THEN FALSE
    ELSE IF b.size = 0
            /\ (lower(path_suffix(path)) \in TEXT_EXTS \/ path_suffix(path) = "")
        THEN TRUE
    ELSE IF b.size > MAX_SIZE THEN FALSE
    ELSE IF b.os_error THEN FALSE
    ELSE IF b.nul >= 1 /\ b.nul <= Min(1024, b.size) THEN FALSE
    ELSE DecodesUtf8(b, Min(1024, b.size))

\* The try block of is_text_file, for a path that is a regular file with
\* the bytes b: stat, the empty-file rule, the size limit, then the first
\* min(1024, size) bytes; OSError and UnicodeDecodeError give False.
InspectFile(path, b) ==
    IF b.stat_error THEN FALSE
    ELSE IF b.size = 0
        THEN lower(path_suffix(path)) \in TEXT_EXTS \/ path_suffix(path) = ""
    ELSE IF b.size > MAX_SIZE THEN FALSE
    ELSE IF b.os_error THEN FALSE
    ELSE IF b.nul >= 1 /\ b.nul <= Min(1024, b.size) THEN FALSE
    ELSE DecodesUtf8(b, Min(1024, b.size))

\* is_text_file(path) as collect_files calls it, after Path.is_file()
\* has returned True for the entry.
is_text_file(tree, ign, path) ==
    IF is_file(tree, ign, path) # "yes" THEN FALSE
    ELSE InspectFile(path, FileBytes(ign, path))

\* is_text_file(path) called on its own, for a path f: Path.is_file() stands
\* before the try block, so the PermissionError it raises when stat() fails
\* with EACCES leaves is_text_file.
is_text_file_call(f) ==
    IF f.is_file = "raise" THEN "PermissionError"
    ELSE IF f.is_file = "no" THEN "False"
    ELSE IF InspectFile(f.path, f.bytes) THEN "True"
    ELSE "False"

\* The files is_text_file is called on: names with an allow-listed
\* extension (in either case), another extension or none, and contents
\* around the limits of the function (empty, the 1024-byte prefix, MAX_SIZE).
TextPaths == {"a.py", "README.MD", "notes", "custom.ext", "dist/package.tar.gz"}
TextSizes == {0, 1, 3, 1024, 1025, MAX_SIZE, MAX_SIZE + 1}
TextOffsets == {0, 1, 2, 1024, 1025}

TextBytes ==
    {b \in [size : TextSizes, nul : TextOffsets, bad : TextOffsets,
            mbStart : {0, 1023, 1024}, mbLen : {0, 2}, esc : {0},
            stat_error : BOOLEAN, os_error : BOOLEAN, blank : {FALSE}] :
        /\ b.nul <= b.size /\ b.bad <= b.size
        /\ (b.nul = 0 \/ b.nul # b.bad)
        /\ (b.mbStart = 0) = (b.mbLen = 0)
        /\ b.mbStart + b.mbLen <= b.size + 1
        /\ (b.mbStart # 0 => (b.nul = 0 /\ b.bad = 0))
        /\ ~(b.stat_error /\ b.os_error)}

TextFiles ==
    {[is_file |-> "yes", path |-> p, bytes |-> b] : p \in TextPaths, b \in TextBytes}
    \cup {[is_file |-> k, path |-> p, bytes |-> PlainText(0)] :
             k \in {"no", "raise"}, p \in TextPaths}


(***************************************************************************)
(* State                                                                   *)
(***************************************************************************)

VARIABLES
    mode,         \* who runs: "collect" (paleae.collect_files called directly,
                  \* as the tests do), "main" (paleae.main), "one"
                  \* (paleaeone.collect_files), "match" (matches_any),
                  \* "read" (read_paleaeignore), "text" (is_text_file),
                  \* "chunk" (one file of paleaeone.generate_rows)
    root_is_dir,  \* root.is_dir()
    tree,         \* the regular files below the root (relative posix paths)
    ign,          \* the ignore file at the root
    args,         \* main's parsed command line
    only_changed, \* paleaeone.collect_files' parameter only_changed
    inc, exc, ign_pos, ign_neg,   \* the compiled pattern lists
    pc,           \* position of the run
    pending,      \* entries (paleaeone: directories) not yet yielded by the walk
    files,        \* the local list `files` (paleaeone: `rels`)
    traversed,    \* the directory walk has been started
    result,       \* what collect_files returned or raised
    exit_code,    \* main's return value, -1 while it runs
    stderr,       \* the last message main printed to stderr
    m_text, m_patterns, m_result, \* a direct call of matches_any
    m_glob,       \* the ignore-file line m_patterns was translated from, or ""
    r_result,     \* what a direct call of read_paleaeignore ended with
    t_file,       \* the path a direct call of is_text_file is given
    t_result,     \* what that call ended with
    c_rel, c_text, c_by, c_max,   \* a file of generate_rows and its options
    c_chunks,     \* the chunks generate_rows cut the file into
    c_rows,       \* the rows generate_rows returned for the file
    w_args,       \* the arguments of two direct calls of row_from_chunk
    w_row, w_row2, \* the Rows the first and the second call returned
    p_total,      \* ProgressTracker.total
    p_current,    \* ProgressTracker.current
    p_lock,       \* the thread that holds ProgressTracker.lock, 0 when free
    p_inc,        \* the increment each thread calls update with
    p_pc,         \* where each thread is in update
    p_load,       \* the value of current each thread has read
    p_prints,     \* the progress lines printed
    b_files,      \* build_snapshot: the argument rel_files
    b_disk,       \* what read_text gives for each path
    b_snap,       \* the snapshot build_snapshot returned
    o_fmt,        \* write_output: the argument format
    o_file        \* the output file

\* What a run does not change: who runs, the file system, the re module,
\* the arguments.
env == <<mode, root_is_dir, tree, ign, re_cache, args, only_changed>>
pats == <<inc, exc, ign_pos, ign_neg>>
walk == <<pending, files, traversed, result>>
proc == <<exit_code, stderr>>
fcall == <<r_result, t_file, t_result, c_rel, c_text, c_by, c_max, c_chunks>>
rcall == <<c_rows, w_args, w_row, w_row2>>
pcall == <<p_total, p_current, p_lock, p_inc, p_pc, p_load, p_prints>>
bcall == <<b_files, b_disk, b_snap>>
ocall == <<o_fmt, o_file>>
xcall == <<rcall, pcall, bcall, ocall>>
mcall == <<m_text, m_patterns, m_result, m_glob, fcall, xcall>>

vars == <<env, pats, pc, walk, proc, mcall>>

NoResult == [kind |-> "none", list |-> <<>>, msg |-> ""]
Returned(l) == [kind |-> "list", list |-> l, msg |-> ""]
PaleaeError(msg) == [kind |-> "PaleaeError", list |-> <<>>, msg |-> msg]

NoArgs == [about |-> FALSE, profile |-> "minimal", include |-> <<>>, exclude |-> <<>>]
NoOnlyChanged == [given |-> FALSE, paths |-> {}]

(***************************************************************************)
(* collect_files (paleae.py)                                               *)
(***************************************************************************)

\* Faulty variants of the filter steps.  Each drops or misplaces one step;
\* the properties below are violated when a variant takes Accepted's place.

\* ... the ignore file's positive rules are not consulted.
Accepted_IgnoresPositive(tr, ig, rel_path, incl, excl, pos, neg) ==
    LET excluded0 == matches_any(rel_path, excl)
        is_excluded == IF excluded0 /\ matches_any(rel_path, neg) THEN FALSE
                       ELSE excluded0
    IN  IF is_excluded THEN FALSE
        ELSE IF incl # <<>> /\ ~matches_any(rel_path, incl) THEN FALSE
        ELSE is_text_file(tr, ig, rel_path)

\* ... a negation never resets an exclusion.
Accepted_NoNegation(tr, ig, rel_path, incl, excl, pos, neg) ==
    LET is_excluded == matches_any(rel_path, excl) \/ matches_any(rel_path, pos)
    IN  IF is_excluded THEN FALSE
        ELSE IF incl # <<>> /\ ~matches_any(rel_path, incl) THEN FALSE
        ELSE is_text_file(tr, ig, rel_path)

\* ... the exclude set is not consulted.
Accepted_NoExclude(tr, ig, rel_path, incl, excl, pos, neg) ==
    LET excluded0 == matches_any(rel_path, pos)
        is_excluded == IF excluded0 /\ matches_any(rel_path, neg) THEN FALSE
                       ELSE excluded0
    IN  IF is_excluded THEN FALSE
        ELSE IF incl # <<>> /\ ~matches_any(rel_path, incl) THEN FALSE
        ELSE is_text_file(tr, ig, rel_path)

\* ... a path that a negation matches skips the include filter.
Accepted_NegationIncludes(tr, ig, rel_path, incl, excl, pos, neg) ==
    LET negated == matches_any(rel_path, neg)
        excluded0 == matches_any(rel_path, excl) \/ matches_any(rel_path, pos)
        is_excluded == IF excluded0 /\ negated THEN FALSE ELSE excluded0
    IN  IF is_excluded THEN FALSE
        ELSE IF ~negated /\ incl # <<>> /\ ~matches_any(rel_path, incl) THEN FALSE
        ELSE is_text_file(tr, ig, rel_path)

\* The filter steps of one loop iteration for a regular file: TRUE when the
\* relative path is appended to `files`.
Accepted(tr, ig, rel_path, incl, excl, pos, neg) ==
    LET excluded0 == matches_any(rel_path, excl) \/ matches_any(rel_path, pos)
        is_excluded == IF excluded0 /\ matches_any(rel_path, neg) THEN FALSE
                       ELSE excluded0
    IN  IF is_excluded THEN FALSE
        ELSE IF incl # <<>> /\ ~matches_any(rel_path, incl) THEN FALSE
        ELSE is_text_file(tr, ig, rel_path)

\* Faulty variant: the list is returned in traversal order.
CollectResult_Unsorted(fs) == Returned(fs)

\* The value of `return sorted(files)`.
CollectResult(fs) == Returned(sorted(fs))

\* Faulty variant: an OSError ends the loop and the files found so far are
\* returned.
TraversalError_ReturnsPartial(fs) == Returned(sorted(fs))

\* What the except clause around the loop does with an OSError.
TraversalError(fs) == PaleaeError("Error traversing")

\* The root check, then files = [] and the call of root.rglob("*").
CollectStart ==
    /\ mode \in {"collect", "main"}
    /\ pc = "cf_call"
    /\ IF ~root_is_dir
       THEN /\ pc' = "cf_raised"
            /\ result' = PaleaeError("Directory not found")
            /\ UNCHANGED <<pending, files, traversed>>
       ELSE /\ pc' = "cf_walk"
            /\ pending' = Entries(tree, ign)
            /\ files' = <<>>
            /\ traversed' = TRUE
            /\ UNCHANGED result
    /\ UNCHANGED <<env, pats, proc, mcall>>

\* One iteration of the for loop, for an entry rglob yields (in any order).
WalkStep ==
    /\ pc = "cf_walk"
    /\ \E path \in pending :
         LET isf == is_file(tree, ign, path)
         IN  /\ pending' = pending \ {path}
             /\ IF isf = "raise"
                THEN /\ pc' = "cf_raised"
                     /\ result' = TraversalError(files)
                     /\ UNCHANGED files
                ELSE /\ files' = IF isf = "yes"
                                    /\ Accepted(tree, ign, path, inc, exc, ign_pos, ign_neg)
                                 THEN Append(files, path) ELSE files
                     /\ UNCHANGED <<pc, result>>
    /\ UNCHANGED <<env, pats, traversed, proc, mcall>>

\* The directory iteration itself fails with an OSError.
WalkOSError ==
    /\ pc = "cf_walk"
    /\ pc' = "cf_raised"
    /\ result' = TraversalError(files)
    /\ UNCHANGED <<env, pats, pending, files, traversed, proc, mcall>>

\* The loop is exhausted: return sorted(files).
CollectReturn ==
    /\ pc = "cf_walk"
    /\ pending = {}
    /\ pc' = "cf_returned"
    /\ result' = CollectResult(files)
    /\ UNCHANGED <<env, pats, pending, files, traversed, proc, mcall>>

(***************************************************************************)
(* main (paleae.py)                                                        *)
(***************************************************************************)

\* The four compile_patterns calls of main, in order; the first PaleaeError
\* ends the sequence.
\* The exception that leaves read_paleaeignore, as main's last handler
\* ("except Exception") sees it.
ReadFailure ==
    [ok |-> FALSE, compiled |-> <<>>, pattern |-> "",
     msg |-> "[Errno 13] Permission denied: '.paleaeignore'"]

\* The pattern-compilation section of main: the two command-line lists are
\* compiled, then the ignore file is read (globs), then its two lists are
\* compiled; the first failure ends the section.
MainPatternsResult(r1, r2, globs, r3, r4) ==
    LET failed == IF ~r1.ok THEN r1 ELSE IF ~r2.ok THEN r2
                  ELSE IF globs.raised THEN ReadFailure
                  ELSE IF ~r3.ok THEN r3 ELSE r4
    IN  [ok |-> r1.ok /\ r2.ok /\ ~globs.raised /\ r3.ok /\ r4.ok,
         inc |-> r1.compiled, exc |-> r2.compiled,
         pos |-> r3.compiled, neg |-> r4.compiled,
         pattern |-> failed.pattern, msg |-> failed.msg,
         unexpected |-> r1.ok /\ r2.ok /\ globs.raised,
         warned |-> r1.ok /\ r2.ok /\ globs.warned]

\* Faulty variant: --include patterns replace the profile's.
MainIgnorePatterns_IncludeReplaces(a, profile, globs) ==
    MainPatternsResult(compile_patterns(IF a.include # <<>> THEN a.include
                                        ELSE profile.include),
                       compile_patterns(a.exclude \o profile.exclude),
                       globs,
                       compile_patterns(translate_globs_to_regex(globs.pos)),
                       compile_patterns(translate_globs_to_regex(globs.neg)))

\* The command line's patterns come first, the profile's follow.
MainIgnorePatterns(a, profile, globs) ==
    MainPatternsResult(compile_patterns(a.include \o profile.include),
                       compile_patterns(a.exclude \o profile.exclude),
                       globs,
                       compile_patterns(translate_globs_to_regex(globs.pos)),
                       compile_patterns(translate_globs_to_regex(globs.neg)))

MainPatterns(a, ig) == MainIgnorePatterns(a, PROFILES[a.profile], read_paleaeignore(ig))

\* --about, then the check that the directory argument is a directory.
MainSetup ==
    /\ mode = "main"
    /\ pc = "m_setup"
    /\ IF args.about
       THEN pc' = "m_exit" /\ exit_code' = 0 /\ UNCHANGED stderr
       ELSE IF ~root_is_dir
       THEN pc' = "m_exit" /\ exit_code' = 1 /\ stderr' = "Error: not a directory"
       ELSE pc' = "m_compile" /\ UNCHANGED proc
    /\ UNCHANGED <<env, pats, walk, mcall>>

\* Pattern compilation; a PaleaeError is caught at the end of main, and so
\* is any other exception ("Unexpected error").  read_paleaeignore's warning
\* goes to stderr and main goes on.
MainCompiled(r) ==
    IF r.ok
    THEN /\ inc' = r.inc /\ exc' = r.exc
         /\ ign_pos' = r.pos /\ ign_neg' = r.neg
         /\ pc' = "cf_call"
         /\ stderr' = IF r.warned THEN "Warning: Could not read " \o PALEAEIGNORE
                       ELSE stderr
         /\ UNCHANGED exit_code
    ELSE /\ pc' = "m_exit"
         /\ exit_code' = 1
         /\ stderr' = IF r.unexpected THEN "Unexpected error: " \o r.msg
                       ELSE "Error: " \o r.msg
         /\ UNCHANGED pats

MainCompile ==
    /\ mode = "main"
    /\ pc = "m_compile"
    /\ MainCompiled(MainPatterns(args, ign))
    /\ UNCHANGED <<env, walk, mcall>>

\* collect_files has returned or raised: PaleaeError and an empty list end
\* main with 1; otherwise build_snapshot and write_output follow.
MainCollected ==
    /\ mode = "main"
    /\ pc \in {"cf_returned", "cf_raised"}
    /\ IF pc = "cf_raised"
       THEN pc' = "m_exit" /\ exit_code' = 1 /\ stderr' = "Error: " \o result.msg
       ELSE IF result.list = <<>>
       THEN pc' = "m_exit" /\ exit_code' = 1
            /\ stderr' = "No text files found matching criteria."
       ELSE pc' = "m_build" /\ UNCHANGED proc
    /\ UNCHANGED <<env, pats, walk, mcall>>


(***************************************************************************)
(* build_snapshot and write_output                                         *)
(***************************************************************************)

\* token_estimate
token_estimate(text) ==
    IF text = "" THEN 0
    ELSE IF Len(text) \div 4 > 1 THEN Len(text) \div 4 ELSE 1

\* Path.read_text(encoding="utf-8", errors="ignore") of a file: the text,
\* or an OSError.
ReadOk(content) == [ok |-> TRUE, content |-> content]
ReadOSError == [ok |-> FALSE, content |-> ""]

\* ignore_meta when there is no ignore file.
NoIgnoreMeta == [file |-> PALEAEIGNORE, present |-> FALSE, patterns |-> 0, negations |-> 0]

\* No snapshot has been built.
NoSnapshot ==
    [meta |-> [ignore_file |-> [NoIgnoreMeta EXCEPT !.file = ""],
               summary |-> [total_files |-> 0, total_chars |-> 0, estimated_tokens |-> 0]],
     files |-> <<>>]

\* The state of the loop: the entries and the two running totals.
BuildStart == [files_data |-> <<>>, total_chars |-> 0, total_tokens |-> 0]

\* Faulty variant: the totals are added before the file is skipped.
BuildFile_CountsSkipped(acc, rel_path, r) ==
    IF ~r.ok THEN acc
    ELSE IF strip(r.content) = ""
    THEN [acc EXCEPT !.total_chars = @ + Len(r.content),
                     !.total_tokens = @ + token_estimate(r.content)]
    ELSE [files_data |-> Append(acc.files_data,
                                [path |-> rel_path, content |-> r.content,
                                 size_chars |-> Len(r.content),
                                 sha256 |-> <<"sha256", r.content>>,
                                 estimated_tokens |-> token_estimate(r.content)]),
          total_chars |-> acc.total_chars + Len(r.content),
          total_tokens |-> acc.total_tokens + token_estimate(r.content)]

\* One pass of the loop: a file that cannot be read, or whose text is empty
\* after strip(), is skipped; any other adds an entry and its counts.
BuildFile(acc, rel_path, r) ==
    IF ~r.ok THEN acc
    ELSE IF strip(r.content) = "" THEN acc
    ELSE [files_data |-> Append(acc.files_data,
                                [path |-> rel_path, content |-> r.content,
                                 size_chars |-> Len(r.content),
                                 sha256 |-> <<"sha256", r.content>>,
                                 estimated_tokens |-> token_estimate(r.content)]),
          total_chars |-> acc.total_chars + Len(r.content),
          total_tokens |-> acc.total_tokens + token_estimate(r.content)]

RECURSIVE BuildLoop(_, _, _, _)
BuildLoop(rel_files, disk, i, acc) ==
    IF i > Len(rel_files) THEN acc
    ELSE BuildLoop(rel_files, disk, i + 1, BuildFile(acc, rel_files[i], disk[rel_files[i]]))

Snapshot(acc, ignore_meta) ==
    [meta |-> [ignore_file |-> ignore_meta,
               summary |-> [total_files |-> Len(acc.files_data),
                            total_chars |-> acc.total_chars,
                            estimated_tokens |-> acc.total_tokens]],
     files |-> acc.files_data]

build_snapshot(rel_files, disk, ignore_meta) ==
    Snapshot(BuildLoop(rel_files, disk, 1, BuildStart), ignore_meta)

\* build_snapshot called on a list of paths.
BuildCall ==
    /\ mode = "build"
    /\ pc = "build_call"
    /\ b_snap' = build_snapshot(b_files, b_disk, NoIgnoreMeta)
    /\ pc' = "build_done"
    /\ UNCHANGED <<env, pats, walk, proc, m_text, m_patterns, m_result, m_glob,
                   fcall, rcall, pcall, ocall, b_files, b_disk>>

\* The text of a file of the tree: size characters, all of them white space
\* in a blank file.
RECURSIVE Repeat(_, _)
Repeat(c, n) == IF n <= 0 THEN "" ELSE c \o Repeat(c, n - 1)

TextOf(b) == IF b.blank THEN Repeat(" ", b.size) ELSE Repeat("x", b.size)

MainDisk(tr, ig) ==
    [p \in tr \cup {PALEAEIGNORE} |->
        IF FileBytes(ig, p).os_error THEN ReadOSError
        ELSE IF p = PALEAEIGNORE THEN ReadOk(ig.text)
        ELSE ReadOk(TextOf(Content[p]))]

\* ignore_meta of main: whether the ignore file gave patterns.
IgnoreMeta(globs) ==
    [file |-> PALEAEIGNORE,
     present |-> globs.pos # <<>> \/ globs.neg # <<>>,
     patterns |-> Len(globs.pos), negations |-> Len(globs.neg)]

\* The output file: absent, or the pieces written so far and whether it has
\* been closed.
NoFile == [exists |-> FALSE, closed |-> FALSE, written |-> <<>>]
Formats == {"json", "jsonl"}

\* The write() calls of write_output: one document for json; for jsonl the
\* meta line, then one line for each file.
RECURSIVE FileLines(_, _)
FileLines(rows, i) ==
    IF i > Len(rows) THEN <<>>
    ELSE <<[type |-> "file", row |-> rows[i]]>> \o FileLines(rows, i + 1)

Pieces(data, format) ==
    IF format = "json" THEN << [type |-> "document", data |-> data] >>
    ELSE << [type |-> "meta", meta |-> data.meta] >> \o FileLines(data.files, 1)

\* What the steps of main after collect_files leave alone.
main_env == <<env, pats, walk, m_text, m_patterns, m_result, m_glob, fcall, rcall, pcall>>

\* data = build_snapshot(root, files, ignore_meta); the format is the
\* command line's --format.
MainBuild ==
    /\ mode = "main"
    /\ pc = "m_build"
    /\ b_files' = result.list
    /\ b_disk' = MainDisk(tree, ign)
    /\ b_snap' = build_snapshot(result.list, MainDisk(tree, ign), IgnoreMeta(read_paleaeignore(ign)))
    /\ \E format \in Formats : o_fmt' = format
    /\ pc' = "w_open"
    /\ UNCHANGED <<main_env, proc, o_file>>

\* write_output: mkdir, json.dumps, then the file is opened for writing,
\* which creates or truncates it.
WriteOpen ==
    /\ mode = "main"
    /\ pc = "w_open"
    /\ o_file' = [exists |-> TRUE, closed |-> FALSE, written |-> <<>>]
    /\ pc' = "w_write"
    /\ UNCHANGED <<main_env, proc, bcall, o_fmt>>

\* One write() call; after the last the file is closed and write_output
\* returns.
WriteNext ==
    /\ mode = "main"
    /\ pc = "w_write"
    /\ LET all == Pieces(b_snap, o_fmt)
           n == Len(o_file.written)
       IN  IF n < Len(all)
           THEN o_file' = [o_file EXCEPT !.written = Append(@, all[n + 1])] /\ pc' = pc
           ELSE o_file' = [o_file EXCEPT !.closed = TRUE] /\ pc' = "m_summary"
    /\ UNCHANGED <<main_env, proc, bcall, o_fmt>>

\* mkdir, open or write fails with an OSError: write_output raises
\* PaleaeError, main prints it and returns 1.  An open file is closed.
WriteOSError ==
    /\ mode = "main"
    /\ pc \in {"w_open", "w_write"}
    /\ o_file' = IF o_file.exists THEN [o_file EXCEPT !.closed = TRUE] ELSE o_file
    /\ pc' = "m_exit"
    /\ exit_code' = 1
    /\ stderr' = "Error: Error writing"
    /\ UNCHANGED <<main_env, bcall, o_fmt>>

\* The summary is printed; main returns 0.
MainSummary ==
    /\ mode = "main"
    /\ pc = "m_summary"
    /\ pc' = "m_exit"
    /\ exit_code' = 0
    /\ UNCHANGED <<main_env, stderr, bcall, ocall>>

\* KeyboardInterrupt, at any point of main's try block: "Cancelled by user"
\* and 1.  An open file is closed as the exception leaves write_output.
MainInterrupt ==
    /\ mode = "main"
    /\ pc \notin {"m_setup", "m_exit"}
    /\ o_file' = IF o_file.exists THEN [o_file EXCEPT !.closed = TRUE] ELSE o_file
    /\ pc' = "m_exit"
    /\ exit_code' = 1
    /\ stderr' = "Cancelled by user"
    /\ UNCHANGED <<main_env, bcall, o_fmt>>


(***************************************************************************)
(* collect_files of the row-export variant (milestones/paleaeone.py)       *)
(***************************************************************************)

ONE_TEXT_EXTS == {".py", ".md", ".rst", ".txt", ".toml", ".ini", ".cfg", ".json",
                  ".yml", ".yaml", ".xml", ".csv", ".tsv", ".html", ".css",
                  ".js", ".ts", ".tsx", ".pyi"}

\* os.path.splitext(path)[1]: leading dots of the name start no extension.
splitext_ext(p) ==
    LET name == path_name(p)
        dots == {k \in 1..Len(name) : Ch(name, k) = "."}
        i == IF dots = {} THEN 0 ELSE CHOOSE k1 \in dots : \A k2 \in dots : k1 >= k2
    IN  IF i >= 1 /\ (\E k \in 1..(i - 1) : Ch(name, k) # ".")
        THEN SubSeq(name, i, Len(name)) ELSE ""

\* paleaeone.is_text_file(path), for a path that is a regular file.
one_is_text_file(path) ==
    LET b == Content[path]
        n == Min(1024, b.size)
    IN  IF splitext_ext(path) \in ONE_TEXT_EXTS THEN TRUE
        ELSE IF b.os_error THEN FALSE
        ELSE IF b.esc >= 1 /\ b.esc + 3 <= n THEN FALSE
        ELSE DecodesUtf8(b, n)

\* path_matches_any(path, patterns)
RECURSIVE path_matches_any(_, _)
path_matches_any(path, patterns) ==
    IF patterns = <<>> THEN FALSE
    ELSE IF Pattern_search(Head(patterns), path) THEN TRUE
    ELSE path_matches_any(path, Tail(patterns))

\* The directory a relative path is in; "" is the root.
ParentOf(p) ==
    LET sl == {k \in 1..Len(p) : Ch(p, k) = "/"}
    IN  IF sl = {} THEN ""
        ELSE SubSeq(p, 1, (CHOOSE k1 \in sl : \A k2 \in sl : k1 >= k2) - 1)

\* os.walk's filenames and dirnames of the directory rel_dir.
FilesIn(tr, rel_dir) == {f \in tr : ParentOf(f) = rel_dir}
DirsIn(tr, rel_dir) == {d \in UNION {Parents(f) : f \in tr} : ParentOf(d) = rel_dir}

\* sorted(filenames)
RECURSIVE SortedOf(_)
SortedOf(S) ==
    IF S = {} THEN <<>>
    ELSE LET m == CHOOSE x \in S : \A y \in S : x = y \/ StrLess(x, y)
         IN  <<m>> \o SortedOf(S \ {m})

\* The checks of the inner loop for the file rel: TRUE when rel is appended.
OneKeep(tr, rel, include, exclude, oc) ==
    IF oc.given /\ rel \notin oc.paths THEN FALSE
    ELSE IF path_matches_any(rel, exclude) THEN FALSE
    ELSE IF ~path_matches_any(rel, include) THEN FALSE
    ELSE IF rel \in Denied THEN FALSE          \* os.path.isfile: stat fails
    ELSE one_is_text_file(rel)

\* skip_dir: some exclude pattern's search succeeds on rel_dir + "/".
OneSkipDir(rel_dir, exclude) == path_matches_any(rel_dir \o "/", exclude)

\* rels = [] and the call of os.walk(root), which yields nothing when the
\* root is not a directory.
OneStart ==
    /\ mode = "one"
    /\ pc = "one_call"
    /\ pc' = "one_walk"
    /\ pending' = IF root_is_dir THEN {""} ELSE {}
    /\ files' = <<>>
    /\ traversed' = TRUE
    /\ UNCHANGED <<env, pats, result, proc, mcall>>

\* One iteration of the os.walk loop, for the directory rel_dir.
OneWalkDir ==
    /\ mode = "one"
    /\ pc = "one_walk"
    /\ \E rel_dir \in pending :
         IF OneSkipDir(rel_dir, exc)
         THEN /\ pending' = pending \ {rel_dir}
              /\ UNCHANGED files
         ELSE /\ pending' = (pending \ {rel_dir}) \cup DirsIn(tree, rel_dir)
              /\ files' = files \o SelectSeq(SortedOf(FilesIn(tree, rel_dir)),
                              LAMBDA rel : OneKeep(tree, rel, inc, exc, only_changed))
    /\ UNCHANGED <<env, pats, pc, traversed, result, proc, mcall>>

\* rels.sort(); return rels
OneReturn ==
    /\ mode = "one"
    /\ pc = "one_walk"
    /\ pending = {}
    /\ pc' = "one_returned"
    /\ result' = Returned(sorted(files))
    /\ UNCHANGED <<env, pats, pending, files, traversed, proc, mcall>>

(***************************************************************************)
(* matches_any called on its own                                           *)
(***************************************************************************)

MatchCall ==
    /\ mode = "match"
    /\ pc = "match_call"
    /\ m_result' = matches_any(m_text, m_patterns)
    /\ pc' = "match_done"
    /\ UNCHANGED <<env, pats, walk, proc, m_text, m_patterns, m_glob, fcall, xcall>>

(***************************************************************************)
(* read_paleaeignore called on its own                                     *)
(***************************************************************************)

ReadCall ==
    /\ mode = "read"
    /\ pc = "read_call"
    /\ r_result' = read_paleaeignore(ign)
    /\ pc' = "read_done"
    /\ UNCHANGED <<env, pats, walk, proc, m_text, m_patterns, m_result, m_glob,
                   t_file, t_result, c_rel, c_text, c_by, c_max, c_chunks, xcall>>

(***************************************************************************)
(* paleaeone.py: chunking                                                  *)
(***************************************************************************)

\* language_from_path(path)
LANGUAGES ==
    ".py" :> "python" @@ ".md" :> "markdown" @@ ".rst" :> "rst" @@
    ".json" :> "json" @@ ".toml" :> "toml" @@ ".yaml" :> "yaml" @@
    ".yml" :> "yaml" @@ ".ini" :> "ini" @@ ".cfg" :> "ini" @@
    ".xml" :> "xml" @@ ".csv" :> "csv" @@ ".tsv" :> "tsv" @@
    ".js" :> "javascript" @@ ".ts" :> "typescript" @@
    ".tsx" :> "typescriptreact" @@ ".html" :> "html" @@ ".css" :> "css" @@
    ".pyi" :> "python-stub"

LanguageOf(ext) == IF ext \in DOMAIN LANGUAGES THEN LANGUAGES[ext] ELSE "text"

language_from_path(path) == LanguageOf(lower(splitext_ext(path)))

\* sep.join(parts)
RECURSIVE join(_, _)
join(sep, parts) ==
    IF parts = <<>> THEN ""
    ELSE IF Len(parts) = 1 THEN parts[1]
    ELSE parts[1] \o sep \o join(sep, Tail(parts))

\* The string the source joins the lines of a chunk with, "\\n": a
\* backslash followed by the letter n, not a line end.
CHUNK_SEP == "\\n"

\* Faulty variant: a closed chunk does not move the start of the next one.
RECURSIVE ChunkLoop_KeepsStart(_, _, _, _, _, _, _)
ChunkLoop_KeepsStart(lines, i, max_chars, chunks, buf, start, cur_len) ==
    IF i > Len(lines)
        THEN [chunks |-> chunks, buf |-> buf, start |-> start]
    ELSE IF cur_len + Len(lines[i]) + 1 > max_chars /\ buf # <<>>
        THEN ChunkLoop_KeepsStart(lines, i + 1, max_chars,
                 Append(chunks, <<start, i - 1, join(CHUNK_SEP, buf)>>),
                 <<lines[i]>>, start, Len(lines[i]) + 1)
    ELSE ChunkLoop_KeepsStart(lines, i + 1, max_chars, chunks,
                 Append(buf, lines[i]), start, cur_len + Len(lines[i]) + 1)

\* The loop of chunk_text_by_lines over enumerate(lines, start=1), from
\* line i on: a chunk is a tuple <<start, end, text>>.
RECURSIVE ChunkLoop(_, _, _, _, _, _, _)
ChunkLoop(lines, i, max_chars, chunks, buf, start, cur_len) ==
    IF i > Len(lines)
        THEN [chunks |-> chunks, buf |-> buf, start |-> start]
    ELSE IF cur_len + Len(lines[i]) + 1 > max_chars /\ buf # <<>>
        THEN ChunkLoop(lines, i + 1, max_chars,
                 Append(chunks, <<start, i - 1, join(CHUNK_SEP, buf)>>),
                 <<lines[i]>>, i, Len(lines[i]) + 1)
    ELSE ChunkLoop(lines, i + 1, max_chars, chunks,
                 Append(buf, lines[i]), start, cur_len + Len(lines[i]) + 1)

\* The end of chunk_text_by_lines: the last buffer, then the chunk of a
\* text without lines.
ChunkLast(lines, r) ==
    IF r.buf # <<>>
        THEN Append(r.chunks, <<r.start, Len(lines), join(CHUNK_SEP, r.buf)>>)
        ELSE r.chunks

ChunkOrWhole(text, chunks) ==
    IF chunks = <<>> THEN << <<1, 1, text>> >> ELSE chunks

ChunkLines(text, lines, max_chars) ==
    ChunkOrWhole(text, ChunkLast(lines, ChunkLoop(lines, 1, max_chars, <<>>, <<>>, 1, 0)))

\* chunk_text_by_lines(text, max_chars)
chunk_text_by_lines(text, max_chars) == ChunkLines(text, splitlines(text), max_chars)

\* ast.parse(text) for texts made of blank lines, simple statements at
\* column 0, decorator lines, def/class headers and indented body lines:
\* the nodes of tree.body with lineno and end_lineno, or a SyntaxError.
\* The lineno of a decorated definition is the line of its def/class
\* keyword; its end_lineno is its last body line.
LineKind(line) ==
    IF strip(line) = "" THEN "blank"
    ELSE IF StartsWith(line, " ") THEN "indented"
    ELSE IF StartsWith(line, "@") THEN "decorator"
    ELSE IF StartsWith(line, "def ") \/ StartsWith(line, "class ") THEN "header"
    ELSE "statement"

SyntaxError == [ok |-> FALSE, body |-> <<>>]

DefNode(lineno, end_lineno) == [def |-> TRUE, lineno |-> lineno, end_lineno |-> end_lineno]
StmtNode(lineno) == [def |-> FALSE, lineno |-> lineno, end_lineno |-> lineno]

RECURSIVE ParseLines(_, _, _, _, _, _)

\* A line at column 0 outside any block.
ParseTop(lines, i, kind, body) ==
    IF kind = "indented" THEN SyntaxError
    ELSE IF kind = "decorator" THEN ParseLines(lines, i + 1, "decorated", 0, 0, body)
    ELSE IF kind = "header" THEN ParseLines(lines, i + 1, "head", i, 0, body)
    ELSE ParseLines(lines, i + 1, "top", 0, 0, Append(body, StmtNode(i)))

ParseLine(lines, i, state, lineno, end_lineno, body, kind) ==
    IF kind = "blank" THEN ParseLines(lines, i + 1, state, lineno, end_lineno, body)
    ELSE IF state = "head"
        THEN IF kind = "indented"
                THEN ParseLines(lines, i + 1, "block", lineno, i, body)
                ELSE SyntaxError
    ELSE IF state = "decorated"
        THEN IF kind = "decorator" THEN ParseLines(lines, i + 1, "decorated", 0, 0, body)
             ELSE IF kind = "header" THEN ParseLines(lines, i + 1, "head", i, 0, body)
             ELSE SyntaxError
    ELSE IF state = "block"
        THEN IF kind = "indented"
                THEN ParseLines(lines, i + 1, "block", lineno, i, body)
                ELSE ParseTop(lines, i, kind, Append(body, DefNode(lineno, end_lineno)))
    ELSE ParseTop(lines, i, kind, body)

ParseLines(lines, i, state, lineno, end_lineno, body) ==
    IF i > Len(lines)
        THEN IF state = "top" THEN [ok |-> TRUE, body |-> body]
             ELSE IF state = "block"
                 THEN [ok |-> TRUE, body |-> Append(body, DefNode(lineno, end_lineno))]
             ELSE SyntaxError
    ELSE ParseLine(lines, i, state, lineno, end_lineno, body, LineKind(lines[i]))

ast_parse(text) == ParseLines(splitlines(text), 1, "top", 0, 0, <<>>)

\* The (lineno, end_lineno) pairs of the top-level function and class
\* definitions, in source order (which is their sorted order).
IsDef(node) == node.def

Boundaries(body) == SelectSeq(body, IsDef)

\* The chunks of one definition: the segment as one chunk when it fits,
\* else chunk_text_by_lines of the segment, moved to the definition's line.
ShiftChunks(s, chunks) ==
    [k \in 1..Len(chunks) |->
        <<s + (chunks[k][1] - 1), s + (chunks[k][2] - 1), chunks[k][3]>>]

SegmentChunks(s, e, segment, max_chars) ==
    IF Len(segment) <= max_chars THEN << <<s, e, segment>> >>
    ELSE ShiftChunks(s, chunk_text_by_lines(segment, max_chars))

RECURSIVE DefChunks(_, _, _, _)
DefChunks(lines, boundaries, max_chars, chunks) ==
    IF boundaries = <<>> THEN chunks
    ELSE DefChunks(lines, Tail(boundaries), max_chars,
            chunks \o SegmentChunks(Head(boundaries).lineno, Head(boundaries).end_lineno,
                          join(CHUNK_SEP, SubSeq(lines, Head(boundaries).lineno,
                                                 Head(boundaries).end_lineno)),
                          max_chars))

PythonChunks(text, max_chars, parsed) ==
    IF ~parsed.ok THEN chunk_text_by_lines(text, max_chars)
    ELSE IF Boundaries(parsed.body) = <<>> THEN chunk_text_by_lines(text, max_chars)
    ELSE DefChunks(splitlines(text), Boundaries(parsed.body), max_chars, <<>>)

\* chunk_python_by_defs(text, max_chars)
chunk_python_by_defs(text, max_chars) == PythonChunks(text, max_chars, ast_parse(text))

\* The choice of the chunks of one file in generate_rows.
WholeFile(text, end_line) == << <<1, IF end_line > 0 THEN end_line ELSE 1, text>> >>

generate_rows_chunks(rel, text, chunk_by, max_chars) ==
    IF language_from_path(rel) = "python" /\ chunk_by \in {"functions", "classes"}
        THEN chunk_python_by_defs(text, max_chars)
    ELSE IF chunk_by = "lines" THEN chunk_text_by_lines(text, max_chars)
    ELSE IF Len(text) > max_chars THEN chunk_text_by_lines(text, max_chars)
    ELSE WholeFile(text, Len(splitlines(text)))

(***************************************************************************)
(* paleaeone.py: rows                                                      *)
(***************************************************************************)

\* str(n), n >= 0
DecimalDigits == "0123456789"

RECURSIVE str_int(_)
str_int(n) ==
    IF n < 10 THEN Ch(DecimalDigits, n + 1)
    ELSE str_int(n \div 10) \o Ch(DecimalDigits, (n % 10) + 1)

\* s.count(sub): the occurrences of sub in s from position i on, without
\* overlap, left to right.
RECURSIVE count_from(_, _, _)
count_from(s, sub, i) ==
    IF i + Len(sub) - 1 > Len(s) THEN 0
    ELSE IF SubSeq(s, i, i + Len(sub) - 1) = sub
        THEN 1 + count_from(s, sub, i + Len(sub))
    ELSE count_from(s, sub, i + 1)

\* s.replace(old, new)
RECURSIVE str_replace(_, _, _)
str_replace(s, old, new) ==
    IF Len(s) < Len(old) THEN s
    ELSE IF StartsWith(s, old)
        THEN new \o str_replace(SubSeq(s, Len(old) + 1, Len(s)), old, new)
    ELSE Ch(s, 1) \o str_replace(SubSeq(s, 2, Len(s)), old, new)

\* len(s.split()): the maximal runs of characters that are not whitespace.
RECURSIVE WordsFrom(_, _, _)
WordsFrom(s, i, inWord) ==
    IF i > Len(s) THEN 0
    ELSE IF Ch(s, i) \in Whitespace THEN WordsFrom(s, i + 1, FALSE)
    ELSE (IF inWord THEN 0 ELSE 1) + WordsFrom(s, i + 1, TRUE)

count_words(s) == IF s = "" THEN 0 ELSE WordsFrom(s, 1, FALSE)

\* estimate_tokens(s) without tiktoken: max(1, len(s) // 4)
estimate_tokens(s) == IF Len(s) \div 4 >= 1 THEN Len(s) \div 4 ELSE 1

\* len(s.encode("utf-8", errors="ignore")) for the ASCII texts of the runs.
utf8_len(s) == Len(s)

\* sha256_text(s): the digest, as the pair of the algorithm and the text
\* that was hashed.
sha256_text(s) == <<"sha256", s>>

\* kind_from_path(path)
KindOfExt(ext) ==
    IF ext \in {".py", ".pyi", ".js", ".ts", ".tsx", ".css", ".html"} THEN "code"
    ELSE IF ext \in {".md", ".rst", ".txt"} THEN "doc"
    ELSE IF ext \in {".json", ".toml", ".yml", ".yaml", ".ini", ".cfg", ".xml"} THEN "config"
    ELSE "data"

KindOfLow(low) ==
    IF \/ StartsWith(low, "tests/") \/ Contains(low, "/tests/")
       \/ EndsWith(low, "_test.py") \/ StartsWith(low, "test_")
       \/ Contains(low, "/test_")
        THEN "test"
        ELSE KindOfExt(splitext_ext(low))

kind_from_path(path) == KindOfLow(lower(str_replace(path, "\\\\", "/")))

\* py_deps_from_source(source): the first name of every module imported
\* by an "import m" or "from m import n" line, each once, in order; no
\* dependency when the source does not parse.
FirstName(m) ==
    LET dots == {k \in 1..Len(m) : Ch(m, k) \in {".", " ", ","}}
    IN  IF dots = {} THEN m
        ELSE SubSeq(m, 1, (CHOOSE k1 \in dots : \A k2 \in dots : k1 <= k2) - 1)

AppendNew(out, d) == IF d \in Range(out) THEN out ELSE Append(out, d)

ImportOf(out, stmt) ==
    IF StartsWith(stmt, "import ")
        THEN AppendNew(out, FirstName(SubSeq(stmt, 8, Len(stmt))))
    ELSE IF StartsWith(stmt, "from ")
        THEN AppendNew(out, FirstName(SubSeq(stmt, 6, Len(stmt))))
    ELSE out

RECURSIVE ImportNames(_, _)
ImportNames(lines, out) ==
    IF lines = <<>> THEN out
    ELSE ImportNames(Tail(lines), ImportOf(out, strip(Head(lines))))

py_deps_from_source(source) ==
    IF ~ast_parse(source).ok THEN <<>> ELSE ImportNames(splitlines(source), <<>>)

\* Faulty variant: the id names the first line only.
row_from_chunk_IdOfStart(relpath, profile, git_ref, kind, language, start, end, text, deps_list) ==
    [id |-> relpath \o ":" \o str_int(start),
     relpath |-> relpath, kind |-> kind, language |-> language,
     start |-> start, end |-> end,
     bytes |-> utf8_len(text),
     line_count |-> IF text # "" THEN count_from(text, CHUNK_SEP, 1) + 1 ELSE 0,
     word_count |-> count_words(text),
     est_tokens |-> estimate_tokens(text),
     sha256 |-> sha256_text(text),
     deps |-> join(";", deps_list),
     tags |-> "", profile |-> profile, git_ref |-> git_ref, text |-> text]

\* row_from_chunk(relpath, profile, git_ref, kind, language, start, end,
\* text, deps_list)
row_from_chunk(relpath, profile, git_ref, kind, language, start, end, text, deps_list) ==
    [id |-> relpath \o ":" \o str_int(start) \o "-" \o str_int(end),
     relpath |-> relpath, kind |-> kind, language |-> language,
     start |-> start, end |-> end,
     bytes |-> utf8_len(text),
     line_count |-> IF text # "" THEN count_from(text, CHUNK_SEP, 1) + 1 ELSE 0,
     word_count |-> count_words(text),
     est_tokens |-> estimate_tokens(text),
     sha256 |-> sha256_text(text),
     deps |-> join(";", deps_list),
     tags |-> "", profile |-> profile, git_ref |-> git_ref, text |-> text]

NoRow == row_from_chunk("", "", "", "", "", 0, 0, "", <<>>)

\* The arguments of a call of row_from_chunk, as generate_rows builds them.
RowArgs(relpath, range, text, deps_list) ==
    [relpath |-> relpath, profile |-> "minimal", git_ref |-> "",
     kind |-> kind_from_path(relpath), language |-> language_from_path(relpath),
     start |-> range[1], end |-> range[2], text |-> text, deps_list |-> deps_list]

NoRowArgs == RowArgs("", <<0, 0>>, "", <<>>)

RowPaths == {"a.py", "tests/test_a.py", "README.md"}
RowRanges == {<<1, 1>>, <<2, 3>>, <<9, 12>>, <<100, 100>>}
RowTexts == {"", "x", "x\\nx", "def f():\n    pass\n"}
RowDeps == {<<>>, <<"os", "re">>}

RowArgsPool ==
    {RowArgs(p, r, t, d) : p \in RowPaths, r \in RowRanges, t \in RowTexts, d \in RowDeps}

\* rows.sort(key=lambda r: (r.relpath, r.start, r.end)) for the rows of one
\* file: a stable insertion by (start, end).
RowBefore(a, b) == a.start < b.start \/ (a.start = b.start /\ a.end < b.end)

RECURSIVE InsertRow(_, _)
InsertRow(rows, r) ==
    IF rows = <<>> THEN <<r>>
    ELSE IF RowBefore(r, rows[Len(rows)])
        THEN Append(InsertRow(SubSeq(rows, 1, Len(rows) - 1), r), rows[Len(rows)])
    ELSE Append(rows, r)

RECURSIVE SortRows(_, _)
SortRows(rows, out) ==
    IF rows = <<>> THEN out ELSE SortRows(Tail(rows), InsertRow(out, Head(rows)))

\* The rows of one file in generate_rows: one Row per chunk, then the sort.
FileRows(rel, profile, git_ref, kind, language, deps_list, chunks) ==
    [k \in 1..Len(chunks) |->
        row_from_chunk(rel, profile, git_ref, kind, language,
                       chunks[k][1], chunks[k][2], chunks[k][3], deps_list)]

\* generate_rows(root, [rel], profile, chunk_by, max_chars, git_ref) for a
\* file that read_text reads as text.
RowsOfChunks(rel, text, profile, git_ref, chunks) ==
    SortRows(FileRows(rel, profile, git_ref, kind_from_path(rel), language_from_path(rel),
                      py_deps_from_source(text), chunks),
             <<>>)

generate_rows(rel, text, profile, chunk_by, max_chars, git_ref) ==
    RowsOfChunks(rel, text, profile, git_ref,
                 generate_rows_chunks(rel, text, chunk_by, max_chars))

\* The profile and git reference of the runs.
RowProfile == "minimal"
RowGitRef == ""

\* The texts, files, strategies and limits the chunking is run on.
MaxLines == 3

ChunkLinePool == {"", "x", "@d", "def f():", "    pass"}

ChunkLineSeqs == UNION {[1..n -> ChunkLinePool] : n \in 0..MaxLines}

ChunkTexts ==
    {join("\n", ls) : ls \in ChunkLineSeqs}
    \cup {join("\n", ls) \o "\n" : ls \in ChunkLineSeqs \ {<<>>}}

ChunkFiles == {"a.py", "README.md"}
ChunkBy == {"file", "lines", "functions", "classes"}
ChunkMaxChars == {1, 6, 20}

\* "classes" takes the path of "functions"; it is run on the Python file.
ChunkRuns == {r \in ChunkFiles \X ChunkBy : r[1] = "a.py" \/ r[2] # "classes"}

(***************************************************************************)
(* is_text_file called on its own                                          *)
(***************************************************************************)

TextCall ==
    /\ mode = "text"
    /\ pc = "text_call"
    /\ t_result' = is_text_file_call(t_file)
    /\ pc' = "text_done"
    /\ UNCHANGED <<env, pats, walk, proc, m_text, m_patterns, m_result, m_glob,
                   r_result, t_file, c_rel, c_text, c_by, c_max, c_chunks, xcall>>

(***************************************************************************)
(* The chunking of one file, called on its own                             *)
(***************************************************************************)

\* generate_rows(root, [c_rel], profile, c_by, c_max, git_ref) for a
\* readable file with the text c_text.
ChunkCall ==
    /\ mode = "chunk"
    /\ pc = "chunk_call"
    /\ c_chunks' = generate_rows_chunks(c_rel, c_text, c_by, c_max)
    /\ c_rows' = RowsOfChunks(c_rel, c_text, RowProfile, RowGitRef, c_chunks')
    /\ pc' = "chunk_done"
    /\ UNCHANGED <<env, pats, walk, proc, m_text, m_patterns, m_result, m_glob,
                   r_result, t_file, t_result, c_rel, c_text, c_by, c_max,
                   w_args, w_row, w_row2, pcall, bcall, ocall>>

\* row_from_chunk(**w_args), the first and the second time.
RowCall ==
    /\ mode = "row"
    /\ pc = "row_call"
    /\ w_row' = row_from_chunk(w_args.relpath, w_args.profile, w_args.git_ref,
                               w_args.kind, w_args.language, w_args.start,
                               w_args.end, w_args.text, w_args.deps_list)
    /\ pc' = "row_again"
    /\ UNCHANGED <<env, pats, walk, proc, m_text, m_patterns, m_result, m_glob,
                   fcall, c_rows, w_args, w_row2, pcall, bcall, ocall>>

RowCallAgain ==
    /\ mode = "row"
    /\ pc = "row_again"
    /\ w_row2' = row_from_chunk(w_args.relpath, w_args.profile, w_args.git_ref,
                                w_args.kind, w_args.language, w_args.start,
                                w_args.end, w_args.text, w_args.deps_list)
    /\ pc' = "row_done"
    /\ UNCHANGED <<env, pats, walk, proc, m_text, m_patterns, m_result, m_glob,
                   fcall, c_rows, w_args, w_row, pcall, bcall, ocall>>

(***************************************************************************)
(* Initial states                                                          *)
(***************************************************************************)

Idle == /\ pending = {}
        /\ files = <<>>
        /\ traversed = FALSE
        /\ result = NoResult
        /\ exit_code = -1
        /\ stderr = ""

NoReadCall == r_result = ReadReturned(<<>>, <<>>, FALSE)
NoTextCall == t_file = [is_file |-> "no", path |-> "", bytes |-> PlainText(0)] /\ t_result = "none"
NoRowCall == c_rows = <<>> /\ w_args = NoRowArgs /\ w_row = NoRow /\ w_row2 = NoRow
NoChunkCall ==
    /\ c_rel = "" /\ c_text = "" /\ c_by = "" /\ c_max = 0 /\ c_chunks = <<>>
    /\ NoRowCall
NoTrackerCall ==
    /\ p_total = 0 /\ p_current = 0 /\ p_lock = 0 /\ p_prints = 0
    /\ p_inc = <<>> /\ p_pc = <<>> /\ p_load = <<>>
NoBuildCall == b_files = <<>> /\ b_disk = <<>> /\ b_snap = NoSnapshot
NoOutput == o_fmt = "" /\ o_file = NoFile
NoOtherCall == NoTrackerCall /\ NoBuildCall /\ NoOutput
NoFunctionCall == NoReadCall /\ NoTextCall /\ NoChunkCall /\ NoOtherCall

NoMatchCall ==
    m_text = "" /\ m_patterns = <<>> /\ m_result = FALSE /\ m_glob = "" /\ NoFunctionCall

\* collect_files(root, inc, exc, ign_pos, ign_neg) called with compiled
\* lists, the ignore rules read from the root's ignore file.
InitCollect ==
    /\ mode = "collect"
    /\ pc = "cf_call"
    /\ \/ /\ root_is_dir = TRUE
          /\ tree \in Trees
          /\ ign \in IgnorePool
          /\ inc \in IncPool
          /\ exc \in ExcPool
       \/ /\ root_is_dir = TRUE
          /\ tree = ScenarioTree
          /\ ign = ScenarioIgnore
          /\ inc \in {<<>>, PROFILES.minimal.include}
          /\ exc = PROFILES.minimal.exclude
       \/ /\ root_is_dir = FALSE
          /\ tree = {}
          /\ ign = NoIgnoreFile
          /\ inc \in IncPool
          /\ exc \in ExcPool
    /\ ign_pos = IgnorePos(ign).compiled
    /\ ign_neg = IgnoreNeg(ign).compiled
    /\ args = NoArgs
    /\ only_changed = NoOnlyChanged
    /\ Idle
    /\ NoMatchCall

\* The command lines of main.
MainIncludes == { <<>>, <<"^src/">>, <<"[">> }
MainExcludes == { <<>>, <<"utils">>, <<"(a">> }

InitMain ==
    /\ mode = "main"
    /\ pc = "m_setup"
    /\ args \in [about : BOOLEAN, profile : {"minimal", "ai_optimized"},
                 include : MainIncludes, exclude : MainExcludes]
    /\ \/ root_is_dir = TRUE /\ tree \in MainTrees /\ ign \in IgnorePool
       \/ /\ root_is_dir = TRUE /\ tree \in MainTrees
          /\ ign \in {UnreadableIgnoreFile("*.log\n"), UnsearchableRoot(TRUE, "*.log\n")}
          /\ args.profile = "minimal"
       \/ root_is_dir = FALSE /\ tree = {} /\ ign = NoIgnoreFile
    /\ inc = <<>> /\ exc = <<>> /\ ign_pos = <<>> /\ ign_neg = <<>>
    /\ only_changed = NoOnlyChanged
    /\ Idle
    /\ NoMatchCall

InitOne ==
    /\ mode = "one"
    /\ pc = "one_call"
    /\ \/ root_is_dir = TRUE /\ tree \in Trees
       \/ root_is_dir = FALSE /\ tree = {}
    /\ ign = NoIgnoreFile
    /\ inc \in IncPool
    /\ exc \in ExcPool
    /\ ign_pos = <<>> /\ ign_neg = <<>>
    /\ only_changed \in {NoOnlyChanged, [given |-> TRUE, paths |-> {"src/main.py"}]}
    /\ args = NoArgs
    /\ Idle
    /\ NoMatchCall

InitMatch ==
    /\ mode = "match"
    /\ pc = "match_call"
    /\ \/ /\ m_text \in MatchTexts
          /\ m_patterns \in MatchLists
          /\ m_glob = ""
       \/ /\ m_text \in GlobPaths
          /\ m_glob \in GlobLines
          /\ m_patterns = GlobPatterns(m_glob)
    /\ m_result = FALSE
    /\ NoFunctionCall
    /\ root_is_dir = TRUE /\ tree = {} /\ ign = NoIgnoreFile
    /\ inc = <<>> /\ exc = <<>> /\ ign_pos = <<>> /\ ign_neg = <<>>
    /\ args = NoArgs
    /\ only_changed = NoOnlyChanged
    /\ Idle

\* The runs that call one function: no tree, no patterns.
NoRun ==
    /\ root_is_dir = TRUE /\ tree = {}
    /\ inc = <<>> /\ exc = <<>> /\ ign_pos = <<>> /\ ign_neg = <<>>
    /\ args = NoArgs
    /\ only_changed = NoOnlyChanged
    /\ Idle

InitRead ==
    /\ mode = "read"
    /\ pc = "read_call"
    /\ ign \in ReadPool
    /\ NoRun
    /\ m_text = "" /\ m_patterns = <<>> /\ m_result = FALSE /\ m_glob = ""
    /\ NoFunctionCall

InitText ==
    /\ mode = "text"
    /\ pc = "text_call"
    /\ t_file \in TextFiles
    /\ t_result = "none"
    /\ ign = NoIgnoreFile
    /\ NoRun
    /\ m_text = "" /\ m_patterns = <<>> /\ m_result = FALSE /\ m_glob = ""
    /\ NoReadCall /\ NoChunkCall /\ NoOtherCall

InitChunk ==
    /\ mode = "chunk"
    /\ pc = "chunk_call"
    /\ \E r \in ChunkRuns : c_rel = r[1] /\ c_by = r[2]
    /\ c_text \in ChunkTexts
    /\ c_max \in ChunkMaxChars
    /\ c_chunks = <<>>
    /\ NoRowCall
    /\ ign = NoIgnoreFile
    /\ NoRun
    /\ m_text = "" /\ m_patterns = <<>> /\ m_result = FALSE /\ m_glob = ""
    /\ NoReadCall /\ NoTextCall /\ NoOtherCall

InitRow ==
    /\ mode = "row"
    /\ pc = "row_call"
    /\ w_args \in RowArgsPool
    /\ w_row = NoRow /\ w_row2 = NoRow /\ c_rows = <<>>
    /\ c_rel = "" /\ c_text = "" /\ c_by = "" /\ c_max = 0 /\ c_chunks = <<>>
    /\ ign = NoIgnoreFile
    /\ NoRun
    /\ m_text = "" /\ m_patterns = <<>> /\ m_result = FALSE /\ m_glob = ""
    /\ NoReadCall /\ NoTextCall /\ NoOtherCall

(***************************************************************************)
(* paleaepro.py: ProgressTracker                                           *)
(***************************************************************************)

\* The threads that call update, once each, and their increments.
MaxThreads == 3
Threads == 1..MaxThreads
Increments == {1, 2}
Totals == {0, 3}

\* What no step of update changes.
tracker_env == <<env, pats, pc, walk, proc, m_text, m_patterns, m_result, m_glob,
                 fcall, rcall, bcall, ocall, p_total, p_inc>>

\* Faulty variant: the lock is taken without waiting for it.
TrackerAcquire_NoWait(t) ==
    /\ mode = "tracker"
    /\ p_pc[t] = "call"
    /\ p_lock' = t
    /\ p_pc' = [p_pc EXCEPT ![t] = "locked"]
    /\ UNCHANGED <<tracker_env, p_current, p_load, p_prints>>

\* with self.lock: the thread enters when the lock is free.
TrackerAcquire(t) ==
    /\ mode = "tracker"
    /\ p_pc[t] = "call"
    /\ p_lock = 0
    /\ p_lock' = t
    /\ p_pc' = [p_pc EXCEPT ![t] = "locked"]
    /\ UNCHANGED <<tracker_env, p_current, p_load, p_prints>>

\* self.current += increment: the read of self.current...
TrackerLoad(t) ==
    /\ mode = "tracker"
    /\ p_pc[t] = "locked"
    /\ p_load' = [p_load EXCEPT ![t] = p_current]
    /\ p_pc' = [p_pc EXCEPT ![t] = "loaded"]
    /\ UNCHANGED <<tracker_env, p_current, p_lock, p_prints>>

\* ... and the write of the sum.
TrackerStore(t) ==
    /\ mode = "tracker"
    /\ p_pc[t] = "loaded"
    /\ p_current' = p_load[t] + p_inc[t]
    /\ p_pc' = [p_pc EXCEPT ![t] = "stored"]
    /\ UNCHANGED <<tracker_env, p_lock, p_load, p_prints>>

\* The report: when more than 0.1 s have passed since the last one (due, as
\* the clock decides) or current has reached total, last_update is set and
\* a line is printed if current > 0 and total > 0.
TrackerReport(t) ==
    /\ mode = "tracker"
    /\ p_pc[t] = "stored"
    /\ \E due \in BOOLEAN :
          p_prints' = IF (due \/ p_current >= p_total) /\ p_current > 0 /\ p_total > 0
                         THEN p_prints + 1 ELSE p_prints
    /\ p_pc' = [p_pc EXCEPT ![t] = "reported"]
    /\ UNCHANGED <<tracker_env, p_current, p_lock, p_load>>

\* The end of the with block releases the lock; update returns.
TrackerRelease(t) ==
    /\ mode = "tracker"
    /\ p_pc[t] = "reported"
    /\ p_lock' = IF p_lock = t THEN 0 ELSE p_lock
    /\ p_pc' = [p_pc EXCEPT ![t] = "returned"]
    /\ UNCHANGED <<tracker_env, p_current, p_load, p_prints>>

\* ProgressTracker(total) has been constructed; every thread is about to
\* call update.
InitTracker ==
    /\ re_cache = {}
    /\ mode = "tracker"
    /\ pc = "threads"
    /\ p_total \in Totals
    /\ p_current = 0
    /\ p_lock = 0
    /\ p_prints = 0
    /\ p_inc \in [Threads -> Increments]
    /\ p_pc = [t \in Threads |-> "call"]
    /\ p_load = [t \in Threads |-> 0]
    /\ ign = NoIgnoreFile
    /\ NoRun
    /\ m_text = "" /\ m_patterns = <<>> /\ m_result = FALSE /\ m_glob = ""
    /\ NoReadCall /\ NoTextCall /\ NoChunkCall /\ NoBuildCall /\ NoOutput

NextTracker ==
    \E t \in Threads :
        \/ TrackerAcquire(t)
        \/ TrackerLoad(t)
        \/ TrackerStore(t)
        \/ TrackerReport(t)
        \/ TrackerRelease(t)

SpecTracker == InitTracker /\ [][NextTracker]_vars

\* matches_any called with one pattern of DEFAULT_SKIP on the paths in
\* which one of SkipEntries is a whole segment, the start of a segment or
\* the end of a segment.
SkipEntries == {".git", ".hg", ".svn", "__pycache__", ".pytest_cache", ".mypy_cache",
                ".ruff_cache", "venv", ".venv", "env", "node_modules", "build",
                "dist", "coverage", "htmlcov", ".coverage", ".env", PALEAEIGNORE}

SkipPaths(n) == {n, n \o "/x", "a/" \o n, "a/" \o n \o "/x",
                 n \o "rc", "x" \o n, "a/" \o n \o "rc", "x" \o n \o "/b"}

SkipTexts == UNION {SkipPaths(n) : n \in SkipEntries}

SkipTable ==
    UNION { LET n == re_compile(p).node
            IN  {<<p, t>> : t \in {t1 \in SkipTexts :
                                     \E i \in 1..(Len(t1) + 1) : Ends(n, t1, i) # {}}}
            : p \in Range(DEFAULT_SKIP) }

InitSkip ==
    /\ re_cache = SkipTable
    /\ mode = "match"
    /\ pc = "match_call"
    /\ m_text \in SkipTexts
    /\ \E i \in 1..Len(DEFAULT_SKIP) : m_patterns = compile_patterns(<<DEFAULT_SKIP[i]>>).compiled
    /\ m_glob = ""
    /\ m_result = FALSE
    /\ NoFunctionCall
    /\ root_is_dir = TRUE /\ tree = {} /\ ign = NoIgnoreFile
    /\ inc = <<>> /\ exc = <<>> /\ ign_pos = <<>> /\ ign_neg = <<>>
    /\ args = NoArgs
    /\ only_changed = NoOnlyChanged
    /\ Idle

NextSkip == MatchCall

SpecSkip == InitSkip /\ [][NextSkip]_vars

\* Two calls of row_from_chunk with the same arguments, on their own.
InitRowCalls == re_cache = {} /\ InitRow

NextRow == RowCall \/ RowCallAgain

SpecRow == InitRowCalls /\ [][NextRow]_vars

\* The runs that search patterns hold the search relation; the others never
\* use the re module.
\* build_snapshot called with a list of at most MaxList paths, each file
\* unreadable, empty, of white space only, or with text.
MaxList == 3
BuildPaths == {"a.py", "b.md", "c.txt"}
BuildReads == {ReadOSError, ReadOk(""), ReadOk(" \n"), ReadOk("x"), ReadOk("hello world!")}
BuildLists == UNION {[1..n -> BuildPaths] : n \in 0..MaxList}

InitBuild ==
    /\ re_cache = {}
    /\ mode = "build"
    /\ pc = "build_call"
    /\ b_files \in BuildLists
    /\ b_disk \in [BuildPaths -> BuildReads]
    /\ b_snap = NoSnapshot
    /\ ign = NoIgnoreFile
    /\ NoRun
    /\ m_text = "" /\ m_patterns = <<>> /\ m_result = FALSE /\ m_glob = ""
    /\ NoReadCall /\ NoTextCall /\ NoChunkCall /\ NoTrackerCall /\ NoOutput

NextBuild == BuildCall

SpecBuild == InitBuild /\ [][NextBuild]_vars

\* main run to its end, with the failures of the write and the interruption
\* by the user.
InitMainRun == re_cache = SearchTable /\ InitMain

NextMain ==
    \/ MainSetup
    \/ MainCompile
    \/ CollectStart
    \/ WalkStep
    \/ WalkOSError
    \/ CollectReturn
    \/ MainCollected
    \/ MainBuild
    \/ WriteOpen
    \/ WriteNext
    \/ WriteOSError
    \/ MainSummary
    \/ MainInterrupt

SpecMain == InitMainRun /\ [][NextMain]_vars

Init == \/ /\ re_cache = SearchTable
           /\ (InitCollect \/ InitMain \/ InitOne \/ InitMatch)
        \/ /\ re_cache = {}
           /\ (InitRead \/ InitText \/ InitChunk \/ InitRow)

Next ==
    \/ CollectStart
    \/ WalkStep
    \/ WalkOSError
    \/ CollectReturn
    \/ MainSetup
    \/ MainCompile
    \/ MainCollected
    \/ OneStart
    \/ OneWalkDir
    \/ OneReturn
    \/ MatchCall
    \/ ReadCall
    \/ TextCall
    \/ ChunkCall
    \/ RowCall
    \/ RowCallAgain

Spec == Init /\ [][Next]_vars


(***************************************************************************)
(* Properties                                                              *)
(***************************************************************************)

\* paleae.collect_files has returned a list (main keeps it in `files`).
CollectReturned == mode \in {"collect", "main"} /\ result.kind = "list"

ReturnedPaths == Range(result.list)

\* The regular files below the root.
RegularFiles ==
    {e \in Entries(tree, ign) : is_file(tree, ign, e) = "yes"}

\* Some directory above the path matches the exclude set, its relative path
\* taken with a trailing "/".
UnderExcludedDir(p) == \E d \in Parents(p) : matches_any(d \o "/", exc)

C2_ReturnedIffAccepted ==
    CollectReturned =>
        /\ ReturnedPaths \subseteq RegularFiles
        /\ \A p \in RegularFiles :
             LET excluded0 == matches_any(p, exc) \/ matches_any(p, ign_pos)
                 excluded == excluded0 /\ ~matches_any(p, ign_neg)
             IN  (p \in ReturnedPaths) <=>
                     (/\ ~excluded
                      /\ (inc = <<>> \/ matches_any(p, inc))
                      /\ is_text_file(tree, ign, p))

\* A walk that returned one file, dropped another, and reset an exclusion.
C2_Witness ==
    /\ CollectReturned
    /\ ReturnedPaths # {}
    /\ RegularFiles \ ReturnedPaths # {}
    /\ \E p \in ReturnedPaths : matches_any(p, ign_pos) /\ matches_any(p, ign_neg)

NegPool == {IgnoreNeg(i).compiled : i \in IgnorePool}

\* C4: for a path that neither the exclude set nor ignore_positive matches,
\* the outcome is the same for every ignore_negative set; a path that fails
\* a non-empty include set or is not a text file is never returned.
C4_NegationOnlyUndoes ==
    CollectReturned =>
        \A p \in RegularFiles :
            /\ (~matches_any(p, exc) /\ ~matches_any(p, ign_pos)) =>
                   \A neg \in NegPool :
                       (p \in ReturnedPaths) <=>
                           Accepted(tree, ign, p, inc, exc, ign_pos, neg)
            /\ ((inc # <<>> /\ ~matches_any(p, inc)) \/ ~is_text_file(tree, ign, p))
                   => p \notin ReturnedPaths

\* A negation matches a path that nothing excluded and that fails the
\* include set; the path is not returned.
C4_Witness ==
    /\ CollectReturned
    /\ \E p \in RegularFiles \ ReturnedPaths :
         /\ matches_any(p, ign_neg)
         /\ ~matches_any(p, exc) /\ ~matches_any(p, ign_pos)
         /\ inc # <<>> /\ ~matches_any(p, inc)
         /\ is_text_file(tree, ign, p)

\* C5: the returned list is in strictly ascending order of relative path
\* (sorted, no path twice), whatever the order of the traversal.
C5_StrictlyAscending ==
    CollectReturned =>
        \A i \in 1..Len(result.list) : \A j \in 1..Len(result.list) :
            i < j => StrLess(result.list[i], result.list[j])

\* The traversal appended the files in another order than the returned one.
C5_Witness ==
    /\ CollectReturned
    /\ Len(result.list) >= 2
    /\ files # result.list

\* C6: the scenario of section 8 returns exactly important.log, src/main.py.
C6_Scenario ==
    (/\ CollectReturned
     /\ tree = ScenarioTree /\ ign = ScenarioIgnore
     /\ exc = PROFILES.minimal.exclude)
        => result.list = <<"important.log", "src/main.py">>

C6_Witness ==
    /\ CollectReturned
    /\ tree = ScenarioTree /\ ign = ScenarioIgnore
    /\ exc = PROFILES.minimal.exclude
    /\ ign_pos = <<"(?s:.*\\.log)\\Z">> /\ ign_neg = <<"(?s:important\\.log)\\Z">>
    /\ result.list = <<"important.log", "src/main.py">>

\* Some directory on the way to the path, the root included, is skipped by
\* paleaeone's walk.
OnePruned(p) == \E d \in Parents(p) \cup {""} : OneSkipDir(d, exc)

\* C7: with an empty include set collect_files returns what it returns with
\* an include set that matches every path, in paleae.py and in paleaeone.py.
C7_EmptyIncludeIsNoConstraint ==
    (result.kind = "list" /\ inc = <<>>) =>
        /\ mode \in {"collect", "main"} =>
              ReturnedPaths = {p \in RegularFiles :
                  Accepted(tree, ign, p, <<".*">>, exc, ign_pos, ign_neg)}
        /\ mode = "one" =>
              ReturnedPaths = {p \in tree :
                  ~OnePruned(p) /\ OneKeep(tree, p, <<".*">>, exc, only_changed)}


\* The permutations of 1..n.
Perms(n) == {f \in [1..n -> 1..n] : \A i \in 1..n : \A j \in 1..n : i # j => f[i] # f[j]}

\* C8: matches_any(text, patterns) is true iff some pattern's search (a
\* match anywhere in the text) succeeds; it is false for the empty list; the
\* order of the patterns does not change the result.
C8_MatchesAnyIsDisjunction ==
    (mode = "match" /\ pc = "match_done") =>
        LET n == Len(m_patterns)
        IN  /\ m_result = (\E k \in 1..n : re_search(m_patterns[k], m_text))
            /\ (n = 0 => m_result = FALSE)
            /\ \A f \in Perms(n) :
                 matches_any(m_text, [k \in 1..n |-> m_patterns[f[k]]]) = m_result

\* The first pattern fails and a later one matches, not at the start.
C8_Witness ==
    /\ mode = "match" /\ pc = "match_done"
    /\ Len(m_patterns) >= 2
    /\ m_result = TRUE
    /\ ~re_search(m_patterns[1], m_text)
    /\ \E k \in 2..Len(m_patterns) :
         /\ re_search(m_patterns[k], m_text)
         /\ Ends(re_compile(m_patterns[k]).node, m_text, 1) = {}

\* C9: when a string of main's include or exclude list does not compile,
\* main ends with a PaleaeError that names the first such string, no
\* compiled list is kept, and the traversal is never started; and main
\* reports an invalid pattern in no other case (the profile's own patterns,
\* which main appends to the command line's, all compile).
C9_InvalidPatternAbortsBeforeTraversal ==
    (mode = "main" /\ pc \notin {"m_setup", "m_compile"}
                   /\ ~args.about /\ root_is_dir) =>
        LET all == args.include \o args.exclude
            bad == {k \in 1..Len(all) : ~re_compile(all[k]).ok}
            first == all[CHOOSE k \in bad : \A k2 \in bad : k <= k2]
        IN  /\ bad # {} =>
                /\ pc = "m_exit" /\ exit_code = 1
                /\ Contains(stderr, "Invalid regex '" \o first \o "'")
                /\ inc = <<>> /\ exc = <<>> /\ ign_pos = <<>> /\ ign_neg = <<>>
                /\ ~traversed /\ result = NoResult
            /\ Contains(stderr, "Invalid regex") => bad # {}

\* main gave up on the pattern "(a" of --exclude, after the include list
\* had compiled, with files under the root.
C9_Witness ==
    /\ mode = "main" /\ pc = "m_exit" /\ exit_code = 1
    /\ args.include = <<"^src/">> /\ args.exclude = <<"(a">>
    /\ Contains(stderr, "Invalid regex '(a'")
    /\ tree # {}
    /\ ~traversed

IsBlank(l) == \A k \in 1..Len(l) : Ch(l, k) \in Whitespace
Trimmed(l) ==
    IF IsBlank(l) THEN ""
    ELSE LET ink == {k \in 1..Len(l) : Ch(l, k) \notin Whitespace}
             i == CHOOSE k \in ink : \A k2 \in ink : k <= k2
             j == CHOOSE k \in ink : \A k2 \in ink : k >= k2
         IN  SubSeq(l, i, j)

\* The n-th smallest element of a set of numbers.
Nth(S, n) == CHOOSE x \in S : Cardinality({y \in S : y < x}) = n - 1

\* C11: read_paleaeignore partitions the trimmed lines in file order: blank
\* lines and "#" lines go to neither list, a "!" line gives its remainder,
\* trimmed again, to the negative list only, every other line goes trimmed
\* to the positive list only.
C11_ReadPartitionsLines ==
    (mode = "read" /\ pc = "read_done" /\ ign.present /\ ign.access = "ok") =>
        LET L == splitlines(ign.text)
            T == [k \in 1..Len(L) |-> Trimmed(L[k])]
            K == {k \in 1..Len(L) : T[k] # "" /\ Ch(T[k], 1) # "#"}
            N == {k \in K : Ch(T[k], 1) = "!"}
            P == K \ N
        IN  /\ ~r_result.raised /\ ~r_result.warned
            /\ r_result.pos = [n \in 1..Cardinality(P) |-> T[Nth(P, n)]]
            /\ r_result.neg = [n \in 1..Cardinality(N) |->
                                 Trimmed(SubSeq(T[Nth(N, n)], 2, Len(T[Nth(N, n)])))]

\* A padded "!" line followed by a padded plain line.
C11_Witness ==
    /\ mode = "read" /\ pc = "read_done"
    /\ ign = IgnoreFile("  ! y  \n a.py ")
    /\ r_result.pos = <<"a.py">> /\ r_result.neg = <<"y">>

\* C12: read_paleaeignore never raises: an absent file gives two empty
\* lists, a file that cannot be read gives the warning and two empty lists.
C12_ReadNeverRaises ==
    (mode = "read" /\ pc = "read_done") =>
        /\ ~r_result.raised
        /\ ~ign.present => (r_result.pos = <<>> /\ r_result.neg = <<>> /\ ~r_result.warned)
        /\ (ign.present /\ ign.access # "ok") =>
              (r_result.warned /\ r_result.pos = <<>> /\ r_result.neg = <<>>)

\* Whole-string glob matching (fnmatch.fnmatchcase) of s from position j
\* against the glob g from position i: "*" stands for any run of characters,
\* "?" for one character, every other character for itself.
RECURSIVE GlobMatches(_, _, _, _)
GlobMatches(g, i, s, j) ==
    IF i > Len(g) THEN j > Len(s)
    ELSE IF Ch(g, i) = "*"
        THEN \E k \in j..(Len(s) + 1) : GlobMatches(g, i + 1, s, k)
    ELSE /\ j <= Len(s)
         /\ (Ch(g, i) = "?" \/ Ch(g, i) = Ch(s, j))
         /\ GlobMatches(g, i + 1, s, j + 1)

\* C13: the translation of an ignore-file line, evaluated by matches_any,
\* matches a relative path exactly when the whole path matches the glob.
C13_GlobMatchesWholePath ==
    (mode = "match" /\ pc = "match_done" /\ m_glob # "") =>
        (m_result = GlobMatches(m_glob, 1, m_text, 1))

(***************************************************************************)
(* is_text_file                                                            *)
(***************************************************************************)

TextReturned == mode = "text" /\ pc = "text_done"

\* The first n bytes of a file hold a null byte.
NulInPrefix(b, n) == b.nul >= 1 /\ b.nul <= n

\* The content inspection of a file that can be read: the size limit, then
\* the null-byte check and the UTF-8 decoding of the first min(1024, size)
\* bytes.
ContentIsText(b) ==
    /\ b.size <= MAX_SIZE
    /\ ~NulInPrefix(b, Min(1024, b.size))
    /\ DecodesUtf8(b, Min(1024, b.size))

\* C14 (as stated): is_text_file returns true for every regular file whose
\* extension is in the allow-list, whatever its size and content.
C14_AsStated ==
    (TextReturned /\ t_file.is_file = "yes"
        /\ path_suffix(t_file.path) \in TEXT_EXTS) =>
        t_result = "True"

\* C14 (amended): the extension does not decide for a non-empty file: a
\* regular file with an allow-listed extension is text exactly when it is
\* empty, or it can be read, is at most MAX_SIZE bytes long and its first
\* min(1024, size) bytes hold no null byte and decode as UTF-8.
C14_ExtensionDoesNotDecide ==
    (TextReturned /\ t_file.is_file = "yes"
        /\ path_suffix(t_file.path) \in TEXT_EXTS) =>
        ((t_result = "True") <=>
            /\ ~t_file.bytes.stat_error
            /\ \/ t_file.bytes.size = 0
               \/ ~t_file.bytes.os_error /\ ContentIsText(t_file.bytes))

\* A three-byte .py file that starts with a null byte is not text.
C14_Witness ==
    /\ TextReturned
    /\ t_file.is_file = "yes" /\ t_file.path = "a.py"
    /\ t_file.bytes.size = 3 /\ t_file.bytes.nul = 1
    /\ ~t_file.bytes.stat_error /\ ~t_file.bytes.os_error
    /\ t_result = "False"

\* C15: is_text_file returns false for every file larger than MAX_SIZE,
\* whatever its extension and content, and collect_files returns no file
\* larger than MAX_SIZE.
C15_LargeFileIsNotText ==
    /\ (TextReturned /\ t_file.is_file = "yes" /\ t_file.bytes.size > MAX_SIZE) =>
            t_result = "False"
    /\ (CollectReturned /\ mode = "collect") =>
            \A q \in ReturnedPaths : FileBytes(ign, q).size <= MAX_SIZE

\* A tree with large_file.txt and another file has been collected: the other
\* file is returned.
C15_Witness ==
    /\ CollectReturned /\ mode = "collect"
    /\ "large_file.txt" \in tree
    /\ ReturnedPaths # {}

\* C16 (as stated): a zero-size regular file with no extension or an
\* allow-listed one is text; with any other extension the result is the one
\* of the content inspection (of the empty prefix).
C16_AsStated ==
    (TextReturned /\ t_file.is_file = "yes" /\ t_file.bytes.size = 0
        /\ ~t_file.bytes.stat_error /\ ~t_file.bytes.os_error) =>
        IF path_suffix(t_file.path) = "" \/ lower(path_suffix(t_file.path)) \in TEXT_EXTS
            THEN t_result = "True"
            ELSE (t_result = "True") <=> ContentIsText(t_file.bytes)

\* C16 (amended): a zero-size regular file is text exactly when it has no
\* extension or its lower-cased extension is allow-listed; its content is
\* never inspected.
C16_EmptyFileByExtension ==
    (TextReturned /\ t_file.is_file = "yes" /\ t_file.bytes.size = 0
        /\ ~t_file.bytes.stat_error) =>
        ((t_result = "True") <=>
            (path_suffix(t_file.path) = ""
                \/ lower(path_suffix(t_file.path)) \in TEXT_EXTS))

\* The empty dist/package.tar.gz is not text.
C16_Witness ==
    /\ TextReturned
    /\ t_file.is_file = "yes" /\ t_file.path = "dist/package.tar.gz"
    /\ t_file.bytes.size = 0 /\ ~t_file.bytes.stat_error
    /\ t_result = "False"

\* C17: for a non-empty regular file of at most MAX_SIZE bytes,
\* is_text_file returns false when the first min(1024, size) bytes hold a
\* null byte or do not decode as UTF-8 and true otherwise, and an OS-level
\* error during the inspection gives false and never leaves the function.
C17_PrefixDecidesAndErrorsAreFalse ==
    TextReturned =>
        /\ t_result \in {"True", "False"}
        /\ (t_file.is_file = "yes"
                /\ (t_file.bytes.stat_error \/ t_file.bytes.os_error)
                /\ t_file.bytes.size > 0 /\ t_file.bytes.size <= MAX_SIZE) =>
              t_result = "False"
        /\ (t_file.is_file = "yes"
                /\ ~t_file.bytes.stat_error /\ ~t_file.bytes.os_error
                /\ t_file.bytes.size > 0 /\ t_file.bytes.size <= MAX_SIZE) =>
              ((t_result = "True") <=>
                  (~NulInPrefix(t_file.bytes, Min(1024, t_file.bytes.size))
                      /\ DecodesUtf8(t_file.bytes, Min(1024, t_file.bytes.size))))

(***************************************************************************)
(* Chunking                                                                *)
(***************************************************************************)

ChunkReturned == mode = "chunk" /\ pc = "chunk_done"

\* The number of lines of the chunked file.
LineCount == Len(splitlines(c_text))

\* The ranges of the chunks, in order, start at line 1, end at line n, have
\* start <= end, and each starts on the line after the end of the previous.
Contiguous(chunks, n) ==
    /\ chunks # <<>>
    /\ chunks[1][1] = 1
    /\ chunks[Len(chunks)][2] = n
    /\ \A k \in 1..Len(chunks) : chunks[k][1] <= chunks[k][2]
    /\ \A k \in 1..(Len(chunks) - 1) : chunks[k + 1][1] = chunks[k][2] + 1

\* C18: for every chunking strategy, text and max_chars, the chunks of a
\* file with N >= 1 lines have start <= end, do not overlap, leave no gap
\* and cover exactly the lines 1..N in order.
C18_ChunksCoverFile ==
    (ChunkReturned /\ LineCount >= 1) => Contiguous(c_chunks, LineCount)

\* chunk_text_by_lines has been applied to the whole text.
ChunkedByLines ==
    /\ ChunkReturned
    /\ \/ c_by = "lines"
       \/ c_by = "file" /\ Len(c_text) > c_max

\* C19: for a text of N >= 1 lines and max_chars >= 1, chunk_text_by_lines
\* returns chunks in increasing order, the first starting at line 1, the
\* last ending at line N, each starting at the end of the previous plus one.
C19_LineChunksContiguous ==
    (ChunkedByLines /\ LineCount >= 1 /\ c_max >= 1) =>
        Contiguous(c_chunks, LineCount)

\* A three-line text forced into two chunks.
C19_Witness ==
    /\ ChunkedByLines /\ c_by = "lines" /\ c_max >= 1
    /\ LineCount = 3
    /\ Len(c_chunks) = 2
    /\ c_chunks[2][1] > 1

\* C20: every chunk of chunk_text_by_lines holds at least one line, a
\* chunk of more than one line has a text of at most max_chars characters,
\* and a line longer than max_chars is a chunk of its own, unsplit.
C20_ChunkWithinMaxChars ==
    (ChunkedByLines /\ LineCount >= 1 /\ c_max >= 1) =>
        /\ \A k \in 1..Len(c_chunks) :
              /\ c_chunks[k][1] <= c_chunks[k][2]
              /\ c_chunks[k][2] > c_chunks[k][1] => Len(c_chunks[k][3]) <= c_max
        /\ \A i \in 1..LineCount :
              Len(splitlines(c_text)[i]) > c_max =>
                  \E k \in 1..Len(c_chunks) :
                      c_chunks[k] = <<i, i, splitlines(c_text)[i]>>

\* chunk_python_by_defs has been applied to the text.
PythonChunked ==
    /\ ChunkReturned
    /\ language_from_path(c_rel) = "python"
    /\ c_by \in {"functions", "classes"}

\* The chunks whose range starts within the lines s..e, in order.
SpanChunks(chunks, s, e) ==
    SelectSeq(chunks, LAMBDA c : c[1] >= s /\ c[1] <= e)

\* The ranges of the chunks start at line s, end at line e and follow one
\* another without gap or overlap.
ContiguousFrom(chunks, s, e) ==
    /\ chunks # <<>>
    /\ chunks[1][1] = s
    /\ chunks[Len(chunks)][2] = e
    /\ \A k \in 1..Len(chunks) : chunks[k][1] <= chunks[k][2]
    /\ \A k \in 1..(Len(chunks) - 1) : chunks[k + 1][1] = chunks[k][2] + 1

\* The text of the lines s..e of the chunked file.
SpanText(s, e) == join("\n", SubSeq(splitlines(c_text), s, e))

\* C21: in chunk_python_by_defs a top-level def/class of lines s..e whose
\* text exceeds max_chars is replaced by the chunks of chunk_text_by_lines
\* for that span, renumbered: contiguous, the first starting at s, the last
\* ending at e; and when the text does not parse or has no top-level
\* def/class the result is chunk_text_by_lines of the whole text.
C21_LongDefSplitInPlace ==
    PythonChunked =>
        IF ~ast_parse(c_text).ok \/ Boundaries(ast_parse(c_text).body) = <<>>
            THEN c_chunks = chunk_text_by_lines(c_text, c_max)
            ELSE \A k \in 1..Len(Boundaries(ast_parse(c_text).body)) :
                    LET b == Boundaries(ast_parse(c_text).body)[k]
                    IN  Len(SpanText(b.lineno, b.end_lineno)) > c_max =>
                            ContiguousFrom(SpanChunks(c_chunks, b.lineno, b.end_lineno),
                                           b.lineno, b.end_lineno)

\* C27: every regular file of non-zero size at most MAX_SIZE whose whole
\* content is valid UTF-8 without a null byte is text, whatever its length
\* and extension.
C27_ValidUtf8IsText ==
    (TextReturned /\ t_file.is_file = "yes"
        /\ ~t_file.bytes.stat_error /\ ~t_file.bytes.os_error
        /\ t_file.bytes.size > 0 /\ t_file.bytes.size <= MAX_SIZE
        /\ t_file.bytes.nul = 0 /\ t_file.bytes.bad = 0) =>
        t_result = "True"

(***************************************************************************)
(* Rows                                                                    *)
(***************************************************************************)

C28_LineCountIsRange ==
    ChunkReturned =>
        \A k \in 1..Len(c_rows) :
            c_rows[k].line_count = c_rows[k].end - c_rows[k].start + 1

(***************************************************************************)
(* The default exclude patterns                                            *)
(***************************************************************************)

\* The "/"-separated segments of a path.
RECURSIVE Segments(_)
Segments(path) ==
    LET slashes == {k \in 1..Len(path) : Ch(path, k) = "/"}
    IN  IF slashes = {} THEN {path}
        ELSE LET k == CHOOSE k1 \in slashes : \A k2 \in slashes : k1 <= k2
             IN  {SubSeq(path, 1, k - 1)} \cup Segments(SubSeq(path, k + 1, Len(path)))

\* The entries each pattern of DEFAULT_SKIP names, in the order of the list.
SkipNamed ==
    << {".git", ".hg", ".svn"}, {"__pycache__"},
       {".pytest_cache", ".mypy_cache", ".ruff_cache"}, {"venv", ".venv", "env"},
       {"node_modules"}, {"build", "dist"}, {"coverage"}, {"htmlcov"},
       {".coverage"}, {".env"}, {PALEAEIGNORE} >>

\* C25: a pattern of DEFAULT_SKIP matches a relative path exactly when one
\* of the path's segments is one of the entries the pattern names; a name
\* that is only the start or the end of a segment does not match.
C25_SkipMatchesWholeSegment ==
    (mode = "match" /\ pc = "match_done" /\ Len(m_patterns) = 1) =>
        \A i \in 1..Len(DEFAULT_SKIP) :
            m_patterns[1] = DEFAULT_SKIP[i] =>
                (m_result = (Segments(m_text) \cap SkipNamed[i] # {}))

(***************************************************************************)
(* ProgressTracker                                                         *)
(***************************************************************************)

RECURSIVE SumOver(_, _)
SumOver(f, ts) ==
    IF ts = {} THEN 0
    ELSE LET t == CHOOSE x \in ts : TRUE IN f[t] + SumOver(f, ts \ {t})

\* The threads between the acquisition and the release of the lock.
InUpdate == {t \in DOMAIN p_pc : p_pc[t] \in {"locked", "loaded", "stored", "reported"}}

\* The threads whose write of current has happened.
Counted == {t \in DOMAIN p_pc : p_pc[t] \in {"stored", "reported", "returned"}}

\* C26: whatever the interleaving of the threads that call update, the
\* read-modify-write of current happens only while the lock is held, no
\* increment is lost, and when all calls have returned current is the sum
\* of the increments.
C26_NoLostIncrement ==
    mode = "tracker" =>
        /\ \A t \in InUpdate : p_lock = t
        /\ p_current = SumOver(p_inc, Counted)
        /\ (\A t \in Threads : p_pc[t] = "returned") =>
              (p_current = SumOver(p_inc, Threads) /\ p_lock = 0)

\* All threads have returned; the last to enter had read the sum of the
\* increments of the others.
C26_Witness ==
    /\ mode = "tracker"
    /\ \A t \in Threads : p_pc[t] = "returned"
    /\ \E t \in Threads : p_load[t] > 0 /\ p_load[t] + p_inc[t] = p_current
    /\ p_current = SumOver(p_inc, Threads)
    /\ p_current >= MaxThreads

(***************************************************************************)
(* build_snapshot                                                          *)
(***************************************************************************)

RECURSIVE SumField(_, _, _)
SumField(rows, field, i) ==
    IF i > Len(rows) THEN 0 ELSE rows[i][field] + SumField(rows, field, i + 1)

\* The paths of rel_files whose file is readable and not blank, in order.
RECURSIVE KeptPaths(_, _, _)
KeptPaths(rel_files, disk, i) ==
    IF i > Len(rel_files) THEN <<>>
    ELSE (IF disk[rel_files[i]].ok /\ strip(disk[rel_files[i]].content) # ""
          THEN <<rel_files[i]>> ELSE <<>>) \o KeptPaths(rel_files, disk, i + 1)

SnapshotConsistent(snap, rel_files, disk) ==
    /\ snap.meta.summary.total_files = Len(snap.files)
    /\ snap.meta.summary.total_chars = SumField(snap.files, "size_chars", 1)
    /\ snap.meta.summary.estimated_tokens = SumField(snap.files, "estimated_tokens", 1)
    /\ [i \in 1..Len(snap.files) |-> snap.files[i].path] = KeptPaths(rel_files, disk, 1)

\* C23: in the snapshot build_snapshot returns, total_files is the number
\* of entries of files, total_chars the sum of their size_chars,
\* estimated_tokens the sum of their estimated_tokens, and the entries are
\* the readable, non-blank files in the order of the input list.
C23_SummaryMatchesFiles ==
    (mode = "build" /\ pc = "build_done") => SnapshotConsistent(b_snap, b_files, b_disk)

\* A list with a skipped file of white space between two files with text.
C23_Witness ==
    /\ mode = "build" /\ pc = "build_done"
    /\ Len(b_files) >= 3
    /\ \E i \in 1..Len(b_files) : b_disk[b_files[i]] = ReadOk(" \n")
    /\ \E i \in 1..Len(b_files) : ~b_disk[b_files[i]].ok
    /\ b_snap.meta.summary.total_files = 1
    /\ b_snap.meta.summary.estimated_tokens = 3

(***************************************************************************)
(* main: the output file                                                   *)
(***************************************************************************)

\* The output file holds everything write_output writes for the snapshot.
OutputComplete == o_file.exists /\ o_file.written = Pieces(b_snap, o_fmt)

\* C24: the output file is touched only after collect_files has returned
\* and build_snapshot has built the snapshot, and when main has ended,
\* however it ended, there is no output file that holds only a part of the
\* snapshot.
C24_NoPartialOutput ==
    mode = "main" =>
        /\ o_file.exists =>
              (result.kind = "list" /\ b_snap # NoSnapshot /\ b_files = result.list)
        /\ (pc = "m_exit" /\ o_file.exists) => OutputComplete

\* C29: when main returns 0 after a run (not --about) the snapshot it wrote
\* has at least one file, and no output file is written for a snapshot
\* without files.
C29_NoEmptySnapshot ==
    mode = "main" =>
        /\ (pc = "m_exit" /\ exit_code = 0 /\ ~args.about) =>
              b_snap.meta.summary.total_files >= 1
        /\ o_file.exists => b_snap.files # <<>>

\* The files collect_files returns when the include list is the profile's
\* alone.
ProfileAlone ==
    {p \in RegularFiles :
        Accepted(tree, ign, p, compile_patterns(PROFILES[args.profile].include).compiled,
                 exc, ign_pos, ign_neg)}

\* C30: the include list of a run is the command line's patterns followed
\* by the profile's; every file accepted with the profile's patterns alone
\* is returned whatever --include adds, and under the minimal profile the
\* returned set is the same for every --include.
C30_IncludeOnlyAdds ==
    (mode = "main" /\ result.kind = "list") =>
        /\ inc = compile_patterns(args.include \o PROFILES[args.profile].include).compiled
        /\ ProfileAlone \subseteq ReturnedPaths
        /\ args.profile = "minimal" => ReturnedPaths = ProfileAlone

\* A run with --include ^src/ under the minimal profile that returned a
\* file outside src/.
C30_Witness ==
    /\ mode = "main" /\ result.kind = "list"
    /\ args.profile = "minimal"
    /\ args.include = <<"^src/">>
    /\ \E p \in ReturnedPaths : ~StartsWith(p, "src/")
    /\ \E p \in ReturnedPaths : StartsWith(p, "src/")

====
